---- MODULE Spec2Model ----
(***************************************************************************)
(* Model of the runtime validators of topgg-api-types (zod/mini schemas).  *)
(*                                                                         *)
(* A JavaScript value is a tagged record; a string is a sequence of        *)
(* one-character strings, so that the regular expressions of the source    *)
(* are matched character by character.  A schema is a data structure built *)
(* by the Z... constructors, and Run interprets it the way zod/mini runs a *)
(* schema: the type's parse first, then the attached checks.               *)
(*                                                                         *)
(* The schema objects are module constants shared by every caller; the     *)
(* state a run can touch on them is the lastIndex of their RegExp objects, *)
(* which every run takes and hands on.  Spec is one caller validating one  *)
(* value after another, ConcSpec several handlers validating side by side. *)
(***************************************************************************)
EXTENDS Integers, Sequences, FiniteSets, TLC

VARIABLES phase, schema, input, result, first, lastIndex, after, pc, req, out

vars == <<phase, schema, input, result, first, lastIndex, after, pc, req, out>>

(***************************************************************************)
(* Bounds of the explored inputs.                                          *)
(***************************************************************************)
MaxDigits == 23
MaxRoutes == 3
MaxSuffix == 3
MaxCounts == 2
MaxVotes == 2
MaxHandlers == 2

(***************************************************************************)
(* Characters.                                                             *)
(***************************************************************************)
Digit == {"0", "1", "2", "3", "4", "5", "6", "7", "8", "9"}
Lower == {"a", "b", "c", "d", "e", "f", "g", "h", "i", "j", "k", "l", "m",
          "n", "o", "p", "q", "r", "s", "t", "u", "v", "w", "x", "y", "z"}
Upper == {"A", "B", "C", "D", "E", "F", "G", "H", "I", "J", "K", "L", "M",
          "N", "O", "P", "Q", "R", "S", "T", "U", "V", "W", "X", "Y", "Z"}
AlNum == Lower \cup Upper \cup Digit

DigitVal(c) ==
    CASE c = "0" -> 0 [] c = "1" -> 1 [] c = "2" -> 2 [] c = "3" -> 3
      [] c = "4" -> 4 [] c = "5" -> 5 [] c = "6" -> 6 [] c = "7" -> 7
      [] c = "8" -> 8 [] c = "9" -> 9

DigitChar(n) ==
    CASE n = 0 -> "0" [] n = 1 -> "1" [] n = 2 -> "2" [] n = 3 -> "3"
      [] n = 4 -> "4" [] n = 5 -> "5" [] n = 6 -> "6" [] n = 7 -> "7"
      [] n = 8 -> "8" [] n = 9 -> "9"

(***************************************************************************)
(* JavaScript values.  Num(n, d) is the number n/d with d > 0.             *)
(***************************************************************************)
Undef == [t |-> "undefined"]
Null == [t |-> "null"]
Bool(b) == [t |-> "boolean", b |-> b]
Num(n, d) == [t |-> "number", n |-> n, d |-> d]
Int_(n) == Num(n, 1)
Str(s) == [t |-> "string", s |-> s]
Arr(a) == [t |-> "array", a |-> a]
Obj(o) == [t |-> "object", o |-> [k \in DOMAIN o |-> o[k]]]

\* The object o with key k set to v.
With(obj, k, v) == Obj([x \in DOMAIN obj.o \cup {k} |-> IF x = k THEN v ELSE obj.o[x]])
\* The object o without key k.
Without(obj, k) == Obj([x \in DOMAIN obj.o \ {k} |-> obj.o[x]])
\* obj[k] of JavaScript: undefined when the key is absent.
Get(obj, k) == IF k \in DOMAIN obj.o THEN obj.o[k] ELSE Undef

\* JavaScript truthiness, as used by `a || b`.
Truthy(v) ==
    CASE v.t = "undefined" -> FALSE
      [] v.t = "null" -> FALSE
      [] v.t = "boolean" -> v.b
      [] v.t = "number" -> v.n # 0
      [] v.t = "string" -> v.s # <<>>
      [] OTHER -> TRUE

(***************************************************************************)
(* Regular expressions of the source: a sequence of atoms, each a          *)
(* character class with a repetition range, with optional ^ and $ anchors. *)
(* Without the m flag, $ matches at the end of the input only.             *)
(***************************************************************************)
Unbounded == -1

Atom(cls, min, max) == [cls |-> cls, min |-> min, max |-> max]
Lit(c) == Atom({c}, 1, 1)

RECURSIVE MatchExact(_, _)
MatchExact(atoms, s) ==
    IF atoms = <<>> THEN s = <<>>
    ELSE LET a == Head(atoms)
             hi == IF a.max = Unbounded \/ a.max > Len(s) THEN Len(s) ELSE a.max
         IN \E k \in a.min..hi :
               /\ \A i \in 1..k : s[i] \in a.cls
               /\ MatchExact(Tail(atoms), SubSeq(s, k + 1, Len(s)))

RegexTest(re, s) ==
    \E i \in 1..(Len(s) + 1) : \E j \in (i - 1)..Len(s) :
        /\ re.anchorStart => i = 1
        /\ re.anchorEnd => j = Len(s)
        /\ MatchExact(re.atoms, SubSeq(s, i, j))

\* The RegExp objects the module creates, one per regular expression
\* literal, and the lastIndex each one is created with.
RegexNames == {"SnowflakeRegex", "WebhookSecretRegex"}

FreshStore == [n \in RegexNames |-> 0]

\* The matches <<i, j>> of re in s that start at index `from` or later.
Matches(re, s, from) ==
    {m \in ((from + 1)..(Len(s) + 1)) \X (0..Len(s)) :
        /\ m[2] >= m[1] - 1
        /\ re.anchorStart => m[1] = 1
        /\ re.anchorEnd => m[2] = Len(s)
        /\ MatchExact(re.atoms, SubSeq(s, m[1], m[2]))}

\* RegExp.prototype.test on a RegExp whose lastIndex is li: whether s
\* matches, and the lastIndex the call leaves.  Without the g flag the
\* search starts at 0 and lastIndex is left alone.
RegExpBuiltinExec(re, s, li) ==
    IF ~re.global THEN [matched |-> RegexTest(re, s), lastIndex |-> li]
    ELSE IF li > Len(s) \/ Matches(re, s, li) = {}
    THEN [matched |-> FALSE, lastIndex |-> 0]
    ELSE LET ms == Matches(re, s, li)
             i == CHOOSE i \in {m[1] : m \in ms} : \A m \in ms : i <= m[1]
             j == CHOOSE j \in {m[2] : m \in {n \in ms : n[1] = i}} :
                     \A m \in ms : m[1] = i => m[2] <= j
         IN [matched |-> TRUE, lastIndex |-> j]

(***************************************************************************)
(* zod/mini: issues, payloads and schema constructors.                     *)
(***************************************************************************)
\* `values` is the list of values an issue carries: the accepted values of
\* an invalid_value issue, nothing for the other codes.  The final issues
\* do not carry the input.
Issue(code, message, cont) ==
    [code |-> code, path |-> <<>>, message |-> message, cont |-> cont, values |-> <<>>]

\* Mutant: the issues of a field keep the path they had inside the field.
PrefixIssues_dropKey(key, issues) == issues

PrefixIssues(key, issues) ==
    [i \in 1..Len(issues) |-> [issues[i] EXCEPT !.path = <<key>> \o @]]

Aborted(issues) == \E i \in 1..Len(issues) : ~issues[i].cont

\* A payload carries the lastIndex of the RegExp objects as the run left
\* them, and the value the run was given as the run left it: a run writes
\* its result to payload.value, and a parser that builds an object or an
\* array assigns a new one to payload.value before it writes the entries.
Payload(value, issues, st, raw) ==
    [value |-> value, issues |-> issues, st |-> st, raw |-> raw]

RECURSIVE Flatten(_)
Flatten(seqs) == IF seqs = <<>> THEN <<>> ELSE Head(seqs) \o Flatten(Tail(seqs))

ZString == [type |-> "string", checks |-> <<>>]
ZNumber == [type |-> "number", checks |-> <<>>]
ZBoolean == [type |-> "boolean", checks |-> <<>>]
ZLiteral(v) == [type |-> "literal", value |-> v, checks |-> <<>>]
ZEnum(entries) == [type |-> "enum", entries |-> entries, checks |-> <<>>]
ZArray(element) == [type |-> "array", element |-> element, checks |-> <<>>]
ZObject(shape) == [type |-> "object", shape |-> shape, checks |-> <<>>]
ZOptional(inner) == [type |-> "optional", inner |-> inner, checks |-> <<>>]
ZUnion(options) == [type |-> "union", options |-> options, checks |-> <<>>]
ZXor(options) == [type |-> "xor", options |-> options, checks |-> <<>>]
ZDiscriminatedUnion(disc, options) ==
    [type |-> "discriminatedUnion", disc |-> disc, options |-> options, checks |-> <<>>]
ZIsoDate == [type |-> "string_format", format |-> "date", checks |-> <<>>]
ZUrl == [type |-> "string_format", format |-> "url", checks |-> <<>>]

ZCheck(sch, check) == [sch EXCEPT !.checks = Append(@, check)]
ZRegex(re, message) == [check |-> "regex", re |-> re, message |-> message]
ZRefine(fn, message) == [check |-> "refine", fn |-> fn, message |-> message]
ZMinimum(n) == [check |-> "minimum", bound |-> n]
ZMaximum(n) == [check |-> "maximum", bound |-> n]

\* z.extend(schema, shape): the keys of shape replace or follow those of schema.
ZExtend(sch, shape) ==
    LET newKeys == {shape[i][1] : i \in 1..Len(shape)}
        kept == SelectSeq(sch.shape, LAMBDA p : p[1] \notin newKeys)
    IN [sch EXCEPT !.shape = kept \o shape, !.checks = <<>>]
ZClone(sch) == sch

(***************************************************************************)
(* String formats: z.iso.date() and z.url().                               *)
(***************************************************************************)
IsLeapYear(y) == y % 4 = 0 /\ (y % 100 # 0 \/ y % 400 = 0)

\* Mutant: every month has 31 days.
DaysInMonth_thirtyOne(y, m) == IF m \in 1..12 THEN 31 ELSE 0

DaysInMonth(y, m) ==
    CASE m \in {1, 3, 5, 7, 8, 10, 12} -> 31
      [] m \in {4, 6, 9, 11} -> 30
      [] m = 2 -> IF IsLeapYear(y) THEN 29 ELSE 28
      [] OTHER -> 0

\* The date regular expression of z.iso.date(): YYYY-MM-DD, a day that exists.
IsISODate(s) ==
    /\ Len(s) = 10
    /\ s[5] = "-" /\ s[8] = "-"
    /\ \A i \in {1, 2, 3, 4, 6, 7, 9, 10} : s[i] \in Digit
    /\ LET y == 1000 * DigitVal(s[1]) + 100 * DigitVal(s[2])
                + 10 * DigitVal(s[3]) + DigitVal(s[4])
           m == 10 * DigitVal(s[6]) + DigitVal(s[7])
           d == 10 * DigitVal(s[9]) + DigitVal(s[10])
       IN d >= 1 /\ d <= DaysInMonth(y, m)

WhiteSpace == {" ", "\t", "\n", "\r"}

RECURSIVE TrimStart(_)
TrimStart(s) ==
    IF s # <<>> /\ Head(s) \in WhiteSpace THEN TrimStart(Tail(s)) ELSE s

RECURSIVE TrimEnd(_)
TrimEnd(s) ==
    IF s # <<>> /\ s[Len(s)] \in WhiteSpace
    THEN TrimEnd(SubSeq(s, 1, Len(s) - 1)) ELSE s

Trim(s) == TrimEnd(TrimStart(s))

SpecialSchemes == {<<"h", "t", "t", "p">>, <<"h", "t", "t", "p", "s">>,
                   <<"w", "s">>, <<"w", "s", "s">>, <<"f", "t", "p">>}

\* Whether `new URL(s)` succeeds: an absolute URL, that is a scheme followed
\* by ":", and for the special schemes a non-empty host without blanks.
IsURL(s) ==
    \E k \in 2..Len(s) :
        /\ s[k] = ":"
        /\ \A i \in 1..(k - 1) : s[i] # ":"
        /\ s[1] \in Lower \cup Upper
        /\ \A i \in 2..(k - 1) : s[i] \in AlNum \cup {"+", "-", "."}
        /\ SubSeq(s, 1, k - 1) \in SpecialSchemes =>
              LET rest == SubSeq(s, k + 1, Len(s))
                  slashes == {n \in 0..Len(rest) : \A i \in 1..n : rest[i] \in {"/", "\\"}}
                  n == CHOOSE x \in slashes : \A z \in slashes : z <= x
                  ends == {e \in (n + 1)..Len(rest) : rest[e] \in {"/", "?", "#"}}
                  stop == IF ends = {} THEN Len(rest) + 1
                          ELSE CHOOSE e \in ends : \A z \in ends : e <= z
                  host == SubSeq(rest, n + 1, stop - 1)
              IN /\ host # <<>>
                 /\ \A i \in 1..Len(host) : host[i] \notin WhiteSpace

(***************************************************************************)
(* Refinement predicates of the source, applied to the parsed value.       *)
(***************************************************************************)
\* (arr) => arr.length === new Set(arr).size
RoutesUnique(arr) ==
    Truthy(Bool(Len(arr.a) = Cardinality({arr.a[i] : i \in 1..Len(arr.a)})))

\* Mutant: a query may carry a cursor or a startDate, not both.
CursorOrStartDate_exclusive(data) ==
    IF Truthy(Get(data, "cursor")) THEN Bool(~Truthy(Get(data, "startDate")))
    ELSE Get(data, "startDate")

\* (data) => data.cursor || data.startDate
CursorOrStartDate(data) ==
    IF Truthy(Get(data, "cursor")) THEN Get(data, "cursor") ELSE Get(data, "startDate")

\* Not in the source: the rule a mutant of the vote status response adds.
\* Dates of the form YYYY-MM-DD are ordered as their digits are.
ExpiresAfterCreated(data) ==
    LET n(s) == DigitVal(s[1]) * 10000000 + DigitVal(s[2]) * 1000000
                  + DigitVal(s[3]) * 100000 + DigitVal(s[4]) * 10000
                  + DigitVal(s[6]) * 1000 + DigitVal(s[7]) * 100
                  + DigitVal(s[9]) * 10 + DigitVal(s[10])
    IN n(Get(data, "expires_at").s) > n(Get(data, "created_at").s)

Refinement(fn, value) ==
    CASE fn = "RoutesUnique" -> RoutesUnique(value)
      [] fn = "CursorOrStartDate" -> Truthy(CursorOrStartDate(value))
      [] fn = "ExpiresAfterCreated" -> ExpiresAfterCreated(value)

(***************************************************************************)
(* Running a schema: the parse of its type, then its checks.               *)
(***************************************************************************)
NumLE(a, b) == a.n * b.d <= b.n * a.d

\* Mutant: the pattern is searched as a global one from the lastIndex the
\* previous test left, without the reset.
CheckRegex_noReset(check, value, st) ==
    LET e == RegExpBuiltinExec([check.re EXCEPT !.global = TRUE], value.s,
                               st[check.re.name])
    IN [issues |-> IF e.matched THEN <<>>
                   ELSE <<Issue("invalid_format", check.message, TRUE)>>,
        st |-> [st EXCEPT ![check.re.name] = e.lastIndex]]

\* The regex check: def.pattern.lastIndex = 0, then def.pattern.test(value).
CheckRegex(check, value, st) ==
    LET e == RegExpBuiltinExec(check.re, value.s, 0)
    IN [issues |-> IF e.matched THEN <<>>
                   ELSE <<Issue("invalid_format", check.message, TRUE)>>,
        st |-> [st EXCEPT ![check.re.name] = e.lastIndex]]

RunCheck(check, value, st) ==
    CASE check.check = "regex" -> CheckRegex(check, value, st)
      [] check.check = "refine" ->
            [issues |-> IF Refinement(check.fn, value) THEN <<>>
                        ELSE <<Issue("custom", check.message, TRUE)>>,
             st |-> st]
      [] check.check = "minimum" ->
            [issues |-> IF NumLE(check.bound, value) THEN <<>>
                        ELSE <<Issue("too_small", "Too small", TRUE)>>,
             st |-> st]
      [] check.check = "maximum" ->
            [issues |-> IF NumLE(value, check.bound) THEN <<>>
                        ELSE <<Issue("too_big", "Too big", TRUE)>>,
             st |-> st]

\* runChecks: a check is skipped once an issue without `continue` is present.
RECURSIVE RunChecks(_, _)
RunChecks(payload, checks) ==
    IF checks = <<>> THEN payload
    ELSE IF Aborted(payload.issues) THEN payload
    ELSE LET c == RunCheck(Head(checks), payload.value, payload.st)
         IN RunChecks(Payload(payload.value, payload.issues \o c.issues, c.st,
                              payload.raw),
                      Tail(checks))

RECURSIVE Run(_, _, _)

\* The runs of a sequence of <<schema, value>> pairs, one after the other:
\* each run starts from the lastIndex values the run before it left.
RECURSIVE RunEach(_, _, _)
RunEach(items, st, done) ==
    IF Len(items) = 0 THEN done
    ELSE LET p == Run(items[1][1], items[1][2], st)
         IN RunEach(Tail(items), p.st, Append(done, p))

LastStore(r, st) == IF Len(r) = 0 THEN st ELSE r[Len(r)].st

\* The value the runs were given, as the last of them left it.
LastRaw(r, v) == IF Len(r) = 0 THEN v ELSE r[Len(r)].raw

InvalidType(v, expected, st) ==
    Payload(v, <<Issue("invalid_type", "Invalid input: expected " \o expected, FALSE)>>, st, v)

ParseString(sch, v, st) ==
    IF v.t = "string" THEN Payload(v, <<>>, st, v) ELSE InvalidType(v, "string", st)

ParseNumber(sch, v, st) ==
    IF v.t = "number" THEN Payload(v, <<>>, st, v) ELSE InvalidType(v, "number", st)

ParseBoolean(sch, v, st) ==
    IF v.t = "boolean" THEN Payload(v, <<>>, st, v) ELSE InvalidType(v, "boolean", st)

ParseLiteral(sch, v, st) ==
    IF v = sch.value THEN Payload(v, <<>>, st, v)
    ELSE Payload(v, <<[Issue("invalid_value", "Invalid input", FALSE)
                         EXCEPT !.values = <<sch.value>>]>>, st, v)

\* Mutant: an enum that accepts every string.
ParseEnum_anyString(sch, v, st) ==
    IF v.t = "string" THEN Payload(v, <<>>, st, v)
    ELSE Payload(v, <<[Issue("invalid_value", "Invalid option", FALSE)
                         EXCEPT !.values = [i \in 1..Len(sch.entries) |->
                                               Str(sch.entries[i])]]>>, st, v)

ParseEnum(sch, v, st) ==
    IF v.t = "string" /\ \E i \in 1..Len(sch.entries) : sch.entries[i] = v.s
    THEN Payload(v, <<>>, st, v)
    ELSE Payload(v, <<[Issue("invalid_value", "Invalid option", FALSE)
                         EXCEPT !.values = [i \in 1..Len(sch.entries) |->
                                               Str(sch.entries[i])]]>>, st, v)

\* Mutant: an accepted date is returned as a full timestamp.
ParseStringFormat_timestamp(sch, v, st) ==
    IF v.t # "string" THEN InvalidType(v, "string", st)
    ELSE CASE sch.format = "date" ->
                 IF IsISODate(v.s)
                 THEN Payload(Str(v.s \o <<"T", "0", "0", ":", "0", "0", ":", "0", "0", "Z">>),
                              <<>>, st, v)
                 ELSE Payload(v, <<Issue("invalid_format", "Invalid ISO date", TRUE)>>, st, v)
           [] sch.format = "url" ->
                 IF IsURL(Trim(v.s)) THEN Payload(Str(Trim(v.s)), <<>>, st, v)
                 ELSE Payload(v, <<Issue("invalid_format", "Invalid URL", TRUE)>>, st, v)

ParseStringFormat(sch, v, st) ==
    IF v.t # "string" THEN InvalidType(v, "string", st)
    ELSE CASE sch.format = "date" ->
                 IF IsISODate(v.s) THEN Payload(v, <<>>, st, v)
                 ELSE Payload(v, <<Issue("invalid_format", "Invalid ISO date", TRUE)>>, st, v)
           [] sch.format = "url" ->
                 IF IsURL(Trim(v.s)) THEN Payload(Str(Trim(v.s)), <<>>, st, v)
                 ELSE Payload(v, <<Issue("invalid_format", "Invalid URL", TRUE)>>, st, v)

ParseOptional(sch, v, st) ==
    IF v = Undef THEN Payload(v, <<>>, st, v) ELSE Run(sch.inner, v, st)

\* Mutant: invalid elements are left out instead of failing the array.
ParseArray_skipInvalid(sch, v, st) ==
    IF v.t # "array" THEN InvalidType(v, "array", st)
    ELSE LET r == RunEach([i \in 1..Len(v.a) |-> <<sch.element, v.a[i]>>], st, <<>>)
             ok == SelectSeq([i \in 1..Len(v.a) |-> i], LAMBDA i : r[i].issues = <<>>)
         IN Payload(Arr([j \in 1..Len(ok) |-> r[ok[j]].value]), <<>>, LastStore(r, st),
                    Arr([i \in 1..Len(v.a) |-> r[i].raw]))

ParseArray(sch, v, st) ==
    IF v.t # "array" THEN InvalidType(v, "array", st)
    ELSE LET r == RunEach([i \in 1..Len(v.a) |-> <<sch.element, v.a[i]>>], st, <<>>)
         IN Payload(Arr([i \in 1..Len(v.a) |-> r[i].value]),
                    Flatten([i \in 1..Len(v.a) |->
                                PrefixIssues(ToString(i - 1), r[i].issues)]),
                    LastStore(r, st),
                    Arr([i \in 1..Len(v.a) |-> r[i].raw]))

\* Mutant: the parse of an object stops at its first failing field.
ParseObject_firstIssue(sch, v, st) ==
    IF v.t # "object" THEN InvalidType(v, "object", st)
    ELSE LET shape == sch.shape
             r == RunEach([i \in 1..Len(shape) |-> <<shape[i][2], Get(v, shape[i][1])>>],
                          st, <<>>)
             bad == {i \in 1..Len(shape) : r[i].issues # <<>>}
             b == CHOOSE i \in bad : \A j \in bad : i <= j
         IN IF bad = {}
            THEN Payload(Obj([k \in {shape[i][1] : i \in 1..Len(shape)} \cap DOMAIN v.o |->
                                 v.o[k]]), <<>>, LastStore(r, st), v)
            ELSE Payload(v, PrefixIssues(shape[b][1], r[b].issues), r[b].st, v)

\* Undeclared keys are dropped; a key is written when its value is defined
\* or the key is present in the input (handlePropertyResult).  The fields
\* are run in the order of the shape.
ParseObject(sch, v, st) ==
    IF v.t # "object" THEN InvalidType(v, "object", st)
    ELSE LET shape == sch.shape
             key(i) == shape[i][1]
             present(i) == key(i) \in DOMAIN v.o
             r == RunEach([i \in 1..Len(shape) |-> <<shape[i][2], Get(v, key(i))>>],
                          st, <<>>)
             optout(i) == shape[i][2].type = "optional"
             issuesOf(i) ==
                 IF r[i].issues = <<>> \/ (optout(i) /\ ~present(i)) THEN <<>>
                 ELSE PrefixIssues(key(i), r[i].issues)
             written == {i \in 1..Len(shape) : r[i].value # Undef \/ present(i)}
             index(k) == CHOOSE i \in written : key(i) = k
             declared == {key(i) : i \in 1..Len(shape)}
             field(k) == CHOOSE i \in 1..Len(shape) : key(i) = k
         IN Payload(Obj([k \in {key(i) : i \in written} |-> r[index(k)].value]),
                    Flatten([i \in 1..Len(shape) |-> issuesOf(i)]),
                    LastStore(r, st),
                    Obj([k \in DOMAIN v.o |->
                            IF k \in declared THEN r[field(k)].raw ELSE v.o[k]]))

InvalidUnion(v, note, st, raw) ==
    Payload(v, <<[Issue("invalid_union", "Invalid input", FALSE) EXCEPT !.message = note]>>,
            st, raw)

\* The options are run in order; the first one without issues is the result.
ParseUnion(sch, v, st) ==
    LET r == RunEach([i \in 1..Len(sch.options) |-> <<sch.options[i], v>>], st, <<>>)
        ok == {i \in 1..Len(sch.options) : r[i].issues = <<>>}
    IN IF ok = {} THEN InvalidUnion(v, "Invalid input", LastStore(r, st), LastRaw(r, v))
       ELSE r[CHOOSE i \in ok : \A j \in ok : i <= j]

\* Exactly one option must match.
ParseXor(sch, v, st) ==
    LET r == RunEach([i \in 1..Len(sch.options) |-> <<sch.options[i], v>>], st, <<>>)
        ok == {i \in 1..Len(sch.options) : r[i].issues = <<>>}
    IN IF Cardinality(ok) = 1
       THEN [r[CHOOSE i \in ok : TRUE] EXCEPT !.st = LastStore(r, st), !.raw = LastRaw(r, v)]
       ELSE IF ok = {} THEN InvalidUnion(v, "Invalid input", LastStore(r, st), LastRaw(r, v))
       ELSE InvalidUnion(v, "Invalid input: multiple options matched", LastStore(r, st),
                         LastRaw(r, v))

\* The literal an option declares for the discriminator key.
DiscriminatorOf(option, disc) ==
    LET i == CHOOSE i \in 1..Len(option.shape) : option.shape[i][1] = disc
    IN option.shape[i][2].value

\* Mutant: the dispatch deletes the discriminator key from the input.
ParseDiscriminatedUnion_consumeTag(sch, v, st) ==
    IF v.t # "object" THEN InvalidType(v, "object", st)
    ELSE LET tag == Get(v, sch.disc)
             match == {i \in 1..Len(sch.options) :
                          DiscriminatorOf(sch.options[i], sch.disc) = tag}
         IN IF match # {}
            THEN [Run(sch.options[CHOOSE i \in match : TRUE], v, st)
                     EXCEPT !.raw = Without(@, sch.disc)]
            ELSE Payload(v, PrefixIssues(sch.disc,
                     <<Issue("invalid_union", "No matching discriminator", FALSE)>>), st, v)

\* The option is chosen by the value of the discriminator key alone.
ParseDiscriminatedUnion(sch, v, st) ==
    IF v.t # "object" THEN InvalidType(v, "object", st)
    ELSE LET tag == Get(v, sch.disc)
             match == {i \in 1..Len(sch.options) :
                          DiscriminatorOf(sch.options[i], sch.disc) = tag}
         IN IF match # {} THEN Run(sch.options[CHOOSE i \in match : TRUE], v, st)
            ELSE Payload(v, PrefixIssues(sch.disc,
                     <<Issue("invalid_union", "No matching discriminator", FALSE)>>), st, v)

ParseType(sch, v, st) ==
    CASE sch.type = "string" -> ParseString(sch, v, st)
      [] sch.type = "number" -> ParseNumber(sch, v, st)
      [] sch.type = "boolean" -> ParseBoolean(sch, v, st)
      [] sch.type = "literal" -> ParseLiteral(sch, v, st)
      [] sch.type = "enum" -> ParseEnum(sch, v, st)
      [] sch.type = "string_format" -> ParseStringFormat(sch, v, st)
      [] sch.type = "optional" -> ParseOptional(sch, v, st)
      [] sch.type = "array" -> ParseArray(sch, v, st)
      [] sch.type = "object" -> ParseObject(sch, v, st)
      [] sch.type = "union" -> ParseUnion(sch, v, st)
      [] sch.type = "xor" -> ParseXor(sch, v, st)
      [] sch.type = "discriminatedUnion" -> ParseDiscriminatedUnion(sch, v, st)

Run(sch, v, st) == RunChecks(ParseType(sch, v, st), sch.checks)

\* Mutant: a successful validation returns the input it was given.
Outcome_input(r) ==
    IF r.issues = <<>>
    THEN [success |-> TRUE, data |-> r.raw, issues |-> <<>>]
    ELSE [success |-> FALSE, data |-> Undef, issues |-> r.issues]

\* What the caller of safeParse sees: the data on success, the issues on
\* failure.
Outcome(r) ==
    IF r.issues = <<>>
    THEN [success |-> TRUE, data |-> r.value, issues |-> <<>>]
    ELSE [success |-> FALSE, data |-> Undef, issues |-> r.issues]

\* schema.safeParse(v), run on the RegExp objects as they are: the outcome,
\* the lastIndex values the call leaves, and v as the call leaves it.
SafeParse(sch, v, st) ==
    LET r == Run(sch, v, st)
    IN [outcome |-> Outcome(r), st |-> r.st, raw |-> r.raw]

(***************************************************************************)
(* String literals of the source.                                          *)
(***************************************************************************)
S_integration_create == <<"i", "n", "t", "e", "g", "r", "a", "t", "i", "o", "n", ".", "c", "r", "e", "a", "t", "e">>
S_integration_delete == <<"i", "n", "t", "e", "g", "r", "a", "t", "i", "o", "n", ".", "d", "e", "l", "e", "t", "e">>
S_vote_create == <<"v", "o", "t", "e", ".", "c", "r", "e", "a", "t", "e">>
S_webhook_test == <<"w", "e", "b", "h", "o", "o", "k", ".", "t", "e", "s", "t">>
S_upvote == <<"u", "p", "v", "o", "t", "e">>
S_test == <<"t", "e", "s", "t">>
S_bot == <<"b", "o", "t">>
S_server == <<"s", "e", "r", "v", "e", "r">>
S_game == <<"g", "a", "m", "e">>
S_discord == <<"d", "i", "s", "c", "o", "r", "d">>
S_roblox == <<"r", "o", "b", "l", "o", "x">>
S_topgg == <<"t", "o", "p", "g", "g">>

(***************************************************************************)
(* utils/validators.                                                       *)
(***************************************************************************)
\* Mutant: the pattern without its end anchor, /^\d{17,21}/.
SnowflakeRegex_noEnd ==
    [name |-> "SnowflakeRegex", global |-> FALSE,
     anchorStart |-> TRUE, anchorEnd |-> FALSE, atoms |-> <<Atom(Digit, 17, 21)>>]

\* /^\d{17,21}$/
SnowflakeRegex ==
    [name |-> "SnowflakeRegex", global |-> FALSE,
     anchorStart |-> TRUE, anchorEnd |-> TRUE, atoms |-> <<Atom(Digit, 17, 21)>>]

SnowflakeSchema == ZCheck(ZString, ZRegex(SnowflakeRegex, "Invalid Snowflake ID"))

ISO8601DateSchema == ZIsoDate

(***************************************************************************)
(* v1 validators.                                                          *)
(***************************************************************************)
\* Mutant: `integration.delete` is not an integration event.
IntegrationWebhookEventTypeSchema_createOnly == ZEnum(<<S_integration_create>>)

IntegrationWebhookEventTypeSchema == ZEnum(<<S_integration_create, S_integration_delete>>)

ProjectTypeSchema == ZEnum(<<S_bot, S_server, S_game>>)

ProjectPlatformTypeSchema == ZEnum(<<S_discord, S_roblox>>)

UserSourceSchema == ZEnum(<<S_discord, S_topgg>>)

WebhookEventTypeSchema == ZEnum(<<S_webhook_test, S_vote_create>>)

WebhookEventTypesSchema == ZUnion(<<WebhookEventTypeSchema, IntegrationWebhookEventTypeSchema>>)

\* Mutant: a user whose avatar_url is any string.
UserSchema_anyAvatar ==
    ZObject(<< <<"id", SnowflakeSchema>>,
               <<"platform_id", SnowflakeSchema>>,
               <<"name", ZString>>,
               <<"avatar_url", ZString>> >>)

UserSchema ==
    ZObject(<< <<"id", SnowflakeSchema>>,
               <<"platform_id", SnowflakeSchema>>,
               <<"name", ZString>>,
               <<"avatar_url", ZUrl>> >>)

BaseProjectSchema ==
    ZObject(<< <<"id", SnowflakeSchema>>,
               <<"platform", ProjectPlatformTypeSchema>>,
               <<"platform_id", SnowflakeSchema>>,
               <<"type", ProjectTypeSchema>> >>)

\* Mutant: a vote weight that must be at least 1.
VoteSchema_positiveWeight ==
    ZObject(<< <<"user_id", SnowflakeSchema>>,
               <<"platform_id", SnowflakeSchema>>,
               <<"weight", ZCheck(ZNumber, ZMinimum(Int_(1)))>>,
               <<"created_at", ISO8601DateSchema>>,
               <<"expires_at", ISO8601DateSchema>> >>)

VoteSchema ==
    ZObject(<< <<"user_id", SnowflakeSchema>>,
               <<"platform_id", SnowflakeSchema>>,
               <<"weight", ZNumber>>,
               <<"created_at", ISO8601DateSchema>>,
               <<"expires_at", ISO8601DateSchema>> >>)

ProjectVoteSchema == ZClone(VoteSchema)

WebhookPayloadBaseSchema(type, data) ==
    ZObject(<< <<"type", ZLiteral(Str(type))>>, <<"data", data>> >>)

\* Mutant: `*` in place of `+`, /^whs_[a-zA-Z0-9]*$/.
WebhookSecretRegex_star ==
    [name |-> "WebhookSecretRegex", global |-> FALSE,
     anchorStart |-> TRUE, anchorEnd |-> TRUE,
     atoms |-> <<Lit("w"), Lit("h"), Lit("s"), Lit("_"), Atom(AlNum, 0, Unbounded)>>]

\* /^whs_[a-zA-Z0-9]+$/
WebhookSecretRegex ==
    [name |-> "WebhookSecretRegex", global |-> FALSE,
     anchorStart |-> TRUE, anchorEnd |-> TRUE,
     atoms |-> <<Lit("w"), Lit("h"), Lit("s"), Lit("_"), Atom(AlNum, 1, Unbounded)>>]

IntegrationCreateDataSchema ==
    ZObject(<< <<"connection_id", SnowflakeSchema>>,
               <<"webhook_secret",
                 ZCheck(ZString, ZRegex(WebhookSecretRegex, "Invalid webhook secret"))>>,
               <<"project", BaseProjectSchema>>,
               <<"user", UserSchema>> >>)

IntegrationCreateWebhookPayloadSchema ==
    WebhookPayloadBaseSchema(S_integration_create, IntegrationCreateDataSchema)

\* Mutant: `routes` without the duplicate check.
IntegrationCreateResponseSchema_noRefine ==
    ZObject(<< <<"webhook_url", ZUrl>>,
               <<"routes", ZArray(IntegrationWebhookEventTypeSchema)>> >>)

IntegrationCreateResponseSchema ==
    ZObject(<< <<"webhook_url", ZUrl>>,
               <<"routes",
                 ZCheck(ZArray(IntegrationWebhookEventTypeSchema),
                        ZRefine("RoutesUnique", "Duplicate webhook scopes are not allowed"))>> >>)

\* Mutant: connection_id as the type declaration has it, any string.
IntegrationDeleteDataSchema_anyString == ZObject(<< <<"connection_id", ZString>> >>)

IntegrationDeleteDataSchema ==
    ZObject(<< <<"connection_id", SnowflakeSchema>> >>)

IntegrationDeleteWebhookPayloadSchema ==
    WebhookPayloadBaseSchema(S_integration_delete, IntegrationDeleteDataSchema)

VoteCreateDataSchema ==
    ZExtend(VoteSchema, << <<"project", BaseProjectSchema>>, <<"user", UserSchema>> >>)

\* Mutant: the vote.create payload built over the webhook.test data schema.
VoteCreateWebhookPayloadSchema_testData ==
    WebhookPayloadBaseSchema(S_vote_create,
        ZObject(<< <<"user", UserSchema>>, <<"project", BaseProjectSchema>> >>))

VoteCreateWebhookPayloadSchema ==
    WebhookPayloadBaseSchema(S_vote_create, VoteCreateDataSchema)

WebhookTestDataSchema ==
    ZObject(<< <<"user", UserSchema>>, <<"project", BaseProjectSchema>> >>)

\* Mutant: the test payload tagged with the v0 literal `test`.
WebhookTestWebhookPayloadSchema_v0 ==
    WebhookPayloadBaseSchema(S_test, WebhookTestDataSchema)

WebhookTestWebhookPayloadSchema ==
    WebhookPayloadBaseSchema(S_webhook_test, WebhookTestDataSchema)

\* Mutant: a plain union of the four variants, without a discriminator.
WebhookPayloadSchema_plainUnion ==
    ZUnion(<<IntegrationCreateWebhookPayloadSchema,
             IntegrationDeleteWebhookPayloadSchema,
             VoteCreateWebhookPayloadSchema,
             WebhookTestWebhookPayloadSchema>>)

WebhookPayloadSchema ==
    ZDiscriminatedUnion("type", <<IntegrationCreateWebhookPayloadSchema,
                                  IntegrationDeleteWebhookPayloadSchema,
                                  VoteCreateWebhookPayloadSchema,
                                  WebhookTestWebhookPayloadSchema>>)

GetProjectVotesQuerySchema ==
    ZCheck(ZObject(<< <<"cursor", ZOptional(ZString)>>,
                      <<"startDate", ZOptional(ISO8601DateSchema)>> >>),
           ZRefine("CursorOrStartDate", "Either cursor or startDate must be provided"))

GetProjectVotesResponseSchema ==
    ZObject(<< <<"cursor", ZString>>, <<"data", ZArray(ProjectVoteSchema)>> >>)

GetProjectResponseSchema ==
    ZExtend(BaseProjectSchema,
            << <<"name", ZString>>,
               <<"headline", ZString>>,
               <<"tags", ZArray(ZString)>>,
               <<"votes", ZNumber>>,
               <<"votes_total", ZNumber>>,
               <<"review_score", ZNumber>>,
               <<"review_count", ZNumber>> >>)

GetVoteStatusByUserQuerySchema ==
    ZObject(<< <<"source", ZOptional(UserSourceSchema)>> >>)

\* Mutant: a vote status whose expiry must be later than its creation.
GetVoteStatusByUserResponseSchema_ordered ==
    ZCheck(ZObject(<< <<"created_at", ISO8601DateSchema>>,
                      <<"expires_at", ISO8601DateSchema>>,
                      <<"weight", ZNumber>> >>),
           ZRefine("ExpiresAfterCreated", "expires_at must be after created_at"))

GetVoteStatusByUserResponseSchema ==
    ZObject(<< <<"created_at", ISO8601DateSchema>>,
               <<"expires_at", ISO8601DateSchema>>,
               <<"weight", ZNumber>> >>)

(***************************************************************************)
(* v0 validators.                                                          *)
(***************************************************************************)
\* The v0 z.enum(["upvote", "test"]), exported as WebhookEventTypeSchema.
V0_WebhookEventTypeSchema == ZEnum(<<S_upvote, S_test>>)

BotWebhookPayloadSchema ==
    ZObject(<< <<"bot", SnowflakeSchema>>,
               <<"user", SnowflakeSchema>>,
               <<"type", V0_WebhookEventTypeSchema>>,
               <<"isWeekend", ZBoolean>>,
               <<"query", ZOptional(ZString)>> >>)

ServerWebhookPayloadSchema ==
    ZObject(<< <<"guild", SnowflakeSchema>>,
               <<"user", SnowflakeSchema>>,
               <<"type", V0_WebhookEventTypeSchema>>,
               <<"query", ZOptional(ZString)>> >>)

BotSchema ==
    ZObject(<< <<"id", SnowflakeSchema>>,
               <<"username", ZString>>,
               <<"discriminator", ZString>>,
               <<"avatar", ZOptional(ZString)>>,
               <<"defAvatar", ZOptional(ZString)>>,
               <<"prefix", ZString>>,
               <<"shortdesc", ZString>>,
               <<"longdesc", ZOptional(ZString)>>,
               <<"tags", ZArray(ZString)>>,
               <<"website", ZOptional(ZString)>>,
               <<"support", ZOptional(ZString)>>,
               <<"github", ZOptional(ZString)>>,
               <<"owners", ZArray(SnowflakeSchema)>>,
               <<"guilds", ZArray(SnowflakeSchema)>>,
               <<"invite", ZOptional(ZString)>>,
               <<"date", ISO8601DateSchema>>,
               <<"server_count", ZOptional(ZNumber)>>,
               <<"shard_count", ZOptional(ZNumber)>>,
               <<"certifiedBot", ZBoolean>>,
               <<"vanity", ZOptional(ZString)>>,
               <<"points", ZNumber>>,
               <<"monthlyPoints", ZNumber>>,
               <<"donatebotguildid", SnowflakeSchema>> >>)

\* Mutant: the lower bound of `limit` off by one.
GetSearchBotsQuerySchema_limitFromZero ==
    ZObject(<< <<"limit", ZOptional(ZCheck(ZCheck(ZNumber, ZMinimum(Int_(0))),
                                           ZMaximum(Int_(500))))>>,
               <<"offset", ZOptional(ZCheck(ZNumber, ZMinimum(Int_(0))))>>,
               <<"sort", ZString>>,
               <<"fields", ZOptional(ZString)>> >>)

GetSearchBotsQuerySchema ==
    ZObject(<< <<"limit", ZOptional(ZCheck(ZCheck(ZNumber, ZMinimum(Int_(1))),
                                           ZMaximum(Int_(500))))>>,
               <<"offset", ZOptional(ZCheck(ZNumber, ZMinimum(Int_(0))))>>,
               <<"sort", ZString>>,
               <<"fields", ZOptional(ZString)>> >>)

\* Mutant: `voted` as any number.
GetUserVoteCheckResponseSchema_number ==
    ZObject(<< <<"voted", ZNumber>> >>)

GetUserVoteCheckResponseSchema ==
    ZObject(<< <<"voted", ZXor(<<ZLiteral(Int_(0)), ZLiteral(Int_(1))>>)>> >>)

\* Mutant: `server_count` as a single number only.
PostBotStatsBodySchema_numberOnly ==
    ZObject(<< <<"server_count", ZNumber>>,
               <<"shards", ZOptional(ZArray(ZNumber))>>,
               <<"shard_id", ZOptional(ZNumber)>>,
               <<"shard_count", ZOptional(ZNumber)>> >>)

PostBotStatsBodySchema ==
    ZObject(<< <<"server_count", ZXor(<<ZNumber, ZArray(ZNumber)>>)>>,
               <<"shards", ZOptional(ZArray(ZNumber))>>,
               <<"shard_id", ZOptional(ZNumber)>>,
               <<"shard_count", ZOptional(ZNumber)>> >>)

SchemaOf(name) ==
    CASE name = "SnowflakeSchema" -> SnowflakeSchema
      [] name = "WebhookPayloadSchema" -> WebhookPayloadSchema
      [] name = "GetProjectVotesQuerySchema" -> GetProjectVotesQuerySchema
      [] name = "GetUserVoteCheckResponseSchema" -> GetUserVoteCheckResponseSchema
      [] name = "IntegrationCreateResponseSchema" -> IntegrationCreateResponseSchema
      [] name = "IntegrationCreateDataSchema" -> IntegrationCreateDataSchema
      [] name = "PostBotStatsBodySchema" -> PostBotStatsBodySchema
      [] name = "GetProjectVotesResponseSchema" -> GetProjectVotesResponseSchema
      [] name = "UserSchema" -> UserSchema
      [] name = "VoteCreateWebhookPayloadSchema" -> VoteCreateWebhookPayloadSchema
      [] name = "BotWebhookPayloadSchema" -> BotWebhookPayloadSchema
      [] name = "ServerWebhookPayloadSchema" -> ServerWebhookPayloadSchema
      [] name = "GetSearchBotsQuerySchema" -> GetSearchBotsQuerySchema
      [] name = "ISO8601DateSchema" -> ISO8601DateSchema
      [] name = "GetVoteStatusByUserResponseSchema" -> GetVoteStatusByUserResponseSchema
      [] name = "ProjectTypeSchema" -> ProjectTypeSchema
      [] name = "ProjectPlatformTypeSchema" -> ProjectPlatformTypeSchema
      [] name = "UserSourceSchema" -> UserSourceSchema
      [] name = "WebhookEventTypesSchema" -> WebhookEventTypesSchema
      [] name = "WebhookEventTypeSchema" -> WebhookEventTypeSchema
      [] name = "V0_WebhookEventTypeSchema" -> V0_WebhookEventTypeSchema
      [] name = "VoteSchema" -> VoteSchema
      [] name = "GetProjectResponseSchema" -> GetProjectResponseSchema
      [] name = "BotSchema" -> BotSchema

(***************************************************************************)
(* Raw inputs handed to the validators.  Undef as a field of the           *)
(* generators below stands for a key that the object does not carry.       *)
(***************************************************************************)
SeqsUpTo(S, n) == UNION {[1..k -> S] : k \in 0..n}

DigitRun(n) == [i \in 1..n |-> DigitChar(i % 10)]

Pad2(n) == <<DigitChar(n \div 10), DigitChar(n % 10)>>

DateString(y, m, d) ==
    <<DigitChar(y \div 1000), DigitChar((y \div 100) % 10), DigitChar((y \div 10) % 10),
      DigitChar(y % 10)>> \o <<"-">> \o Pad2(m) \o <<"-">> \o Pad2(d)

\* The object with the keys of f whose value is not Undef.
ObjOf(f) == Obj([k \in {x \in DOMAIN f : f[x] # Undef} |-> f[k]])

S_name == <<"M", "y", "U", "s", "e", "r">>
S_url == <<"h", "t", "t", "p", "s", ":", "/", "/", "t", "o", "p", ".", "g", "g", "/", "a", ".", "p", "n", "g">>
S_not_url == <<"n", "o", "t", " ", "a", " ", "u", "r", "l">>
S_date == <<"2", "0", "2", "5", "-", "0", "1", "-", "0", "1">>
S_date_leap == <<"2", "0", "2", "4", "-", "0", "2", "-", "2", "9">>
S_date_bad == <<"2", "0", "2", "3", "-", "0", "2", "-", "3", "0">>
S_datetime == <<"2", "0", "2", "5", "-", "0", "1", "-", "0", "1", "T", "1", "2", ":", "0", "0", ":", "0", "0", "Z">>
S_cursor == <<"a", "b", "c">>
S_unknown_event == <<"u", "n", "k", "n", "o", "w", "n", ".", "e", "v", "e", "n", "t">>
S_VOTE_CREATE == <<"V", "O", "T", "E", ".", "C", "R", "E", "A", "T", "E">>
S_whs == <<"w", "h", "s", "_">>
S_secret == <<"w", "h", "s", "_", "A", "b", "1", "2">>
S_secret_other == <<"s", "e", "c", "r", "e", "t", "_", "A", "b", "1", "2">>

NonDigits == {"a", " ", "\n", "-", "."}

SnowflakeInputs ==
    {Str(DigitRun(n)) : n \in 0..MaxDigits}
      \cup {Str(<<c>> \o DigitRun(n)) : c \in NonDigits, n \in 15..MaxDigits}
      \cup {Str(DigitRun(n) \o <<c>>) : c \in NonDigits, n \in 15..MaxDigits}
      \cup {Str(DigitRun(8) \o <<c>> \o DigitRun(n)) : c \in NonDigits, n \in 7..13}
      \cup {Undef, Null, Bool(TRUE), Int_(1234567), Arr(<<Str(DigitRun(17))>>),
            Obj([id |-> Str(DigitRun(17))])}

ValidUser ==
    Obj([id |-> Str(DigitRun(17)), platform_id |-> Str(DigitRun(18)),
         name |-> Str(S_name), avatar_url |-> Str(S_url)])

ValidProject ==
    Obj([id |-> Str(DigitRun(19)), platform |-> Str(S_discord),
         platform_id |-> Str(DigitRun(21)), type |-> Str(S_bot)])

ValidVote ==
    Obj([user_id |-> Str(DigitRun(17)), platform_id |-> Str(DigitRun(18)),
         weight |-> Int_(1), created_at |-> Str(S_date), expires_at |-> Str(S_date_leap)])

ValidVoteCreateData ==
    With(With(ValidVote, "project", ValidProject), "user", ValidUser)

ValidWebhookTestData == Obj([user |-> ValidUser, project |-> ValidProject])

ValidIntegrationCreateData ==
    Obj([connection_id |-> Str(DigitRun(20)), webhook_secret |-> Str(S_secret),
         project |-> ValidProject, user |-> ValidUser])

ValidIntegrationDeleteData == Obj([connection_id |-> Str(DigitRun(20))])

PayloadTypes ==
    {Str(S_integration_create), Str(S_integration_delete), Str(S_vote_create),
     Str(S_webhook_test), Str(S_upvote), Str(S_test), Str(S_unknown_event),
     Str(S_VOTE_CREATE), Str(S_vote_create \o <<" ">>), Str(<<>>),
     Undef, Null, Int_(1), Bool(TRUE), Arr(<<Str(S_vote_create)>>)}

PayloadDatas ==
    {ValidVoteCreateData, ValidWebhookTestData, ValidIntegrationCreateData,
     ValidIntegrationDeleteData, With(ValidVoteCreateData, "extra", Int_(1)),
     With(ValidVoteCreateData, "weight", Str(<<"1">>)),
     With(ValidVoteCreateData, "created_at", Str(S_datetime)),
     Obj(<<>>), Undef, Null, Str(S_name)}
      \cup {Without(ValidVoteCreateData, k) : k \in DOMAIN ValidVoteCreateData.o}

WebhookPayloadInputs ==
    {ObjOf([type |-> t, data |-> d, id |-> x]) :
        t \in PayloadTypes, d \in PayloadDatas, x \in {Undef, Int_(7)}}
      \cup {Undef, Null, Str(S_vote_create), Arr(<<>>)}

ProjectVotesQueryInputs ==
    {ObjOf([cursor |-> c, startDate |-> d, limit |-> x]) :
        c \in {Undef, Str(<<>>), Str(S_cursor), Int_(5), Null},
        d \in {Undef, Str(S_date), Str(S_date_leap), Str(S_date_bad), Str(S_datetime),
               Str(<<>>), Int_(2025)},
        x \in {Undef, Int_(7)}}
      \cup {Undef, Null, Str(S_cursor)}

VotedValues ==
    {Undef, Null, Int_(0), Int_(1), Int_(2), Int_(-1), Num(1, 2), Bool(TRUE), Bool(FALSE),
     Str(<<"0">>), Str(<<"1">>), Arr(<<Int_(0)>>)}

UserVoteCheckResponseInputs ==
    {ObjOf([voted |-> v, extra |-> x]) : v \in VotedValues, x \in {Undef, Int_(7)}}
      \cup {Undef, Int_(1)}

RouteStrings ==
    {S_integration_create, S_integration_delete, S_vote_create, S_webhook_test, S_upvote}

IntegrationCreateResponseInputs ==
    {ObjOf([webhook_url |-> u, routes |-> r]) :
        u \in {Str(S_url), Str(<<" ">> \o S_url), Str(S_not_url), Undef},
        r \in {Arr([i \in 1..Len(q) |-> Str(q[i])]) : q \in SeqsUpTo(RouteStrings, MaxRoutes)}
                \cup {Undef, Null, Str(S_vote_create)}}

SuffixChars == {"A", "b", "1", "-", "_", "\n"}

WebhookSecrets ==
    {Str(S_whs \o x) : x \in SeqsUpTo(SuffixChars, MaxSuffix)}
      \cup {Str(S_secret), Str(S_secret_other), Str(<<"x">> \o S_secret),
            Str(<<" ">> \o S_secret), Str(<<"W", "H", "S", "_", "A", "b", "1", "2">>),
            Str(<<>>), Undef, Null, Int_(1)}

IntegrationCreateDataInputs ==
    {ObjOf([connection_id |-> ValidIntegrationCreateData.o.connection_id,
            webhook_secret |-> w,
            project |-> ValidProject,
            user |-> u]) :
        w \in WebhookSecrets, u \in {ValidUser, With(ValidUser, "email", Str(S_name))}}

CountElements == {Int_(1), Int_(-3), Num(3, 2), Str(<<"1">>), Null, Arr(<<>>)}

ServerCounts ==
    {Arr(q) : q \in SeqsUpTo(CountElements, MaxCounts)}
      \cup {Int_(0), Int_(5), Int_(-1), Num(1, 2), Undef, Null, Bool(TRUE), Str(<<"5">>),
            Obj(<<>>)}

PostBotStatsBodyInputs ==
    {ObjOf([server_count |-> c, shards |-> h, shard_id |-> i]) :
        c \in ServerCounts, h \in {Undef, Arr(<<Int_(1), Int_(2)>>)}, i \in {Undef, Int_(0)}}

InvalidVotes ==
    {With(ValidVote, "weight", Str(<<"1">>)), Without(ValidVote, "created_at"),
     With(ValidVote, "user_id", Str(DigitRun(5))), Null}

VoteElements == {ValidVote, With(ValidVote, "extra", Int_(1))} \cup InvalidVotes

ProjectVotesResponseInputs ==
    {ObjOf([cursor |-> c, data |-> d]) :
        c \in {Str(S_cursor), Undef, Int_(5)},
        d \in {Arr(q) : q \in SeqsUpTo(VoteElements, MaxVotes)} \cup {Undef, Null}}

UserInputs ==
    {ObjOf([id |-> i, platform_id |-> p, name |-> n, avatar_url |-> a]) :
        i \in {ValidUser.o.id, Str(DigitRun(5)), Undef},
        p \in {ValidUser.o.platform_id, Int_(5)},
        n \in {ValidUser.o.name, Int_(5)},
        a \in {ValidUser.o.avatar_url, Str(S_not_url), Undef}}

VoteCreatePayloadInputs ==
    {Obj([type |-> Str(S_vote_create), data |-> d]) :
        d \in {ValidVoteCreateData,
               With(ValidVoteCreateData, "id", Str(DigitRun(19))),
               With(ValidVoteCreateData, "id", Str(S_cursor)),
               With(ValidVoteCreateData, "id", Int_(5)),
               Without(ValidVoteCreateData, "user"),
               With(ValidVoteCreateData, "weight", Null),
               With(ValidVoteCreateData, "expires_at", Str(S_date)),
               With(ValidVoteCreateData, "expires_at", Str(DateString(2025, 1, 2)))}}

S_query == <<"?", "a", "=", "1">>

V0WebhookInputs(target) ==
    {ObjOf([k \in {target, "user", "type", "isWeekend", "query"} |->
              CASE k = target -> g
                [] k = "user" -> u
                [] k = "type" -> t
                [] k = "isWeekend" -> w
                [] k = "query" -> q]) :
        g \in {Str(DigitRun(18)), Str(S_cursor)},
        u \in {Str(DigitRun(17)), Undef},
        t \in {Str(S_upvote), Str(S_test), Str(S_vote_create), Undef},
        w \in {Bool(TRUE), Bool(FALSE), Str(S_name), Undef},
        q \in {Undef, Str(S_query), Int_(5)}}

S_sort == <<"-", "p", "o", "i", "n", "t", "s">>

SearchBotsQueryInputs ==
    {ObjOf([limit |-> l, offset |-> o, sort |-> s, fields |-> f]) :
        l \in {Undef, Null, Int_(0), Int_(1), Int_(2), Int_(500), Int_(501), Int_(-1),
               Num(1, 2), Num(1001, 2), Str(<<"5">>)},
        o \in {Undef, Int_(0), Int_(1), Int_(-1), Num(1, 2), Num(-1, 2), Str(<<"0">>)},
        s \in {Str(S_sort), Undef, Int_(1)},
        f \in {Undef, Str(S_cursor)}}

DateYears == {1900, 2000, 2023, 2024}
DateMonths == 0..13
DateDays == {0, 1, 28, 29, 30, 31, 32}

S_date_slashes == <<"2", "0", "2", "5", "/", "0", "1", "/", "0", "1">>
S_date_dmy == <<"0", "1", "-", "0", "1", "-", "2", "0", "2", "5">>
S_date_compact == <<"2", "0", "2", "5", "0", "1", "0", "1">>
S_date_short == <<"2", "0", "2", "5", "-", "1", "-", "1">>

DateInputs ==
    {Str(DateString(y, m, d)) : y \in DateYears, m \in DateMonths, d \in DateDays}
      \cup {Str(S_datetime), Str(S_date_slashes), Str(S_date_dmy), Str(S_date_compact),
            Str(S_date_short), Str(S_date \o <<"\n">>), Str(<<" ">> \o S_date), Str(<<>>),
            Undef, Null, Int_(2025), Arr(<<Str(S_date)>>)}

DateFieldValues ==
    {Str(S_date), Str(S_date_leap), Str(S_date_bad), Str(S_datetime), Int_(2025), Undef}

NumberValues == {Int_(0), Int_(1), Int_(-1), Num(3, 2), Num(-1, 2)}

VoteStatusResponseInputs ==
    {ObjOf([created_at |-> c, expires_at |-> e, weight |-> w]) :
        c \in DateFieldValues, e \in DateFieldValues, w \in NumberValues \cup {Str(<<"1">>)}}

VoteInputs ==
    {ObjOf([user_id |-> ValidVote.o.user_id, platform_id |-> ValidVote.o.platform_id,
            weight |-> w, created_at |-> c, expires_at |-> e]) :
        w \in NumberValues \cup {Str(<<"1">>), Undef},
        c \in DateFieldValues, e \in {Str(S_date_leap), Str(S_datetime)}}

LowerLetters == <<"a", "b", "c", "d", "e", "f", "g", "h", "i", "j", "k", "l", "m", "n", "o", "p", "q", "r", "s", "t", "u", "v", "w", "x", "y", "z">>
UpperLetters == <<"A", "B", "C", "D", "E", "F", "G", "H", "I", "J", "K", "L", "M", "N", "O", "P", "Q", "R", "S", "T", "U", "V", "W", "X", "Y", "Z">>

UpperCase(s) ==
    [i \in 1..Len(s) |->
        IF \E k \in 1..26 : LowerLetters[k] = s[i]
        THEN UpperLetters[CHOOSE k \in 1..26 : LowerLetters[k] = s[i]]
        ELSE s[i]]

Capitalized(s) == UpperCase(SubSeq(s, 1, 1)) \o Tail(s)

EnumWords ==
    {S_bot, S_server, S_game, S_discord, S_roblox, S_topgg, S_webhook_test, S_vote_create,
     S_upvote, S_test, S_integration_create}

EnumInputs ==
    UNION {{Str(w), Str(UpperCase(w)), Str(Capitalized(w)), Str(w \o <<" ">>)} : w \in EnumWords}
      \cup {Str(<<>>), Undef, Null, Int_(0), Bool(TRUE), Arr(<<Str(S_bot)>>)}

S_headline == <<"A", " ", "b", "o", "t">>

ValidProjectResponse ==
    ObjOf([id |-> ValidProject.o.id, platform |-> ValidProject.o.platform,
           platform_id |-> ValidProject.o.platform_id, type |-> ValidProject.o.type,
           name |-> Str(S_name), headline |-> Str(S_headline),
           tags |-> Arr(<<Str(S_cursor)>>),
           votes |-> Int_(1), votes_total |-> Int_(1),
           review_score |-> Int_(1), review_count |-> Int_(1)])

ProjectNumberFields == {"votes", "votes_total", "review_score", "review_count"}

ProjectResponseInputs ==
    {With(ValidProjectResponse, k, v) :
        k \in ProjectNumberFields, v \in NumberValues \cup {Str(<<"1">>), Null}}
      \cup {Without(ValidProjectResponse, k) : k \in ProjectNumberFields}

ValidBot ==
    ObjOf([id |-> Str(DigitRun(18)), username |-> Str(S_name), discriminator |-> Str(<<"0">>),
           prefix |-> Str(<<"!">>), shortdesc |-> Str(S_headline),
           tags |-> Arr(<<Str(S_cursor)>>), owners |-> Arr(<<Str(DigitRun(17))>>),
           guilds |-> Arr(<<>>), date |-> Str(S_date),
           server_count |-> Int_(1), shard_count |-> Int_(1), certifiedBot |-> Bool(FALSE),
           points |-> Int_(1), monthlyPoints |-> Int_(1),
           donatebotguildid |-> Str(DigitRun(19))])

BotNumberFields == {"points", "monthlyPoints", "server_count", "shard_count"}

BotInputs ==
    {With(ValidBot, k, v) :
        k \in BotNumberFields, v \in NumberValues \cup {Str(<<"1">>), Null}}
      \cup {Without(ValidBot, k) : k \in BotNumberFields}

\* The requests of the handlers that run side by side: for each schema a
\* body it accepts and a body it rejects.
ConcRequests ==
    {[schema |-> "SnowflakeSchema", body |-> Str(DigitRun(17))],
     [schema |-> "SnowflakeSchema", body |-> Str(DigitRun(5))],
     [schema |-> "IntegrationCreateDataSchema", body |-> ValidIntegrationCreateData],
     [schema |-> "IntegrationCreateDataSchema",
      body |-> With(ValidIntegrationCreateData, "webhook_secret", Str(S_secret_other))],
     [schema |-> "VoteSchema", body |-> ValidVote],
     [schema |-> "VoteSchema", body |-> With(ValidVote, "platform_id", Str(DigitRun(5)))],
     [schema |-> "WebhookPayloadSchema",
      body |-> Obj([type |-> Str(S_vote_create), data |-> ValidVoteCreateData])],
     [schema |-> "WebhookPayloadSchema",
      body |-> Obj([type |-> Str(S_unknown_event), data |-> ValidVoteCreateData])],
     [schema |-> "GetProjectVotesQuerySchema", body |-> Obj([cursor |-> Str(S_cursor)])],
     [schema |-> "GetProjectVotesQuerySchema", body |-> Obj([limit |-> Int_(7)])],
     [schema |-> "IntegrationCreateResponseSchema",
      body |-> Obj([webhook_url |-> Str(S_url),
                    routes |-> Arr(<<Str(S_integration_create)>>)])],
     [schema |-> "IntegrationCreateResponseSchema",
      body |-> Obj([webhook_url |-> Str(S_url),
                    routes |-> Arr(<<Str(S_integration_create),
                                     Str(S_integration_create)>>)])],
     [schema |-> "UserSchema", body |-> ValidUser],
     [schema |-> "UserSchema", body |-> With(ValidUser, "id", Str(DigitRun(5)))]}

S_uuid ==
    <<"1", "2", "3", "e", "4", "5", "6", "7", "-", "e", "8", "9", "b", "-", "1", "2", "d", "3",
      "-", "a", "4", "5", "6", "-", "4", "2", "6", "6", "1", "4", "1", "7", "4", "0", "0", "0">>

ConnectionIds ==
    {Str(DigitRun(n)) : n \in {16, 17, 20, 21, 22}}
      \cup {Str(S_uuid), Str(S_cursor), Str(<<>>), Str(DigitRun(17) \o <<"a">>),
            Int_(12345), Null}

IntegrationPayloadInputs ==
    {Obj([type |-> Str(S_integration_create),
          data |-> With(ValidIntegrationCreateData, "connection_id", c)]) : c \in ConnectionIds}
      \cup {Obj([type |-> Str(S_integration_delete),
                 data |-> With(ValidIntegrationDeleteData, "connection_id", c)]) :
               c \in ConnectionIds}
      \cup {Obj([type |-> Str(S_integration_create),
                 data |-> Without(ValidIntegrationCreateData, "connection_id")]),
            Obj([type |-> Str(S_integration_delete),
                 data |-> Without(ValidIntegrationDeleteData, "connection_id")])}

EventTypeInputs == EnumInputs \cup {Str(S_integration_delete), Str(S_integration_delete \o <<"d">>)}

EmbeddedUsers ==
    {ValidUser, With(ValidUser, "avatar_url", Str(S_not_url)),
     With(ValidUser, "id", Str(DigitRun(5))),
     With(ValidUser, "platform_id", Str(S_cursor)),
     With(With(ValidUser, "id", Int_(5)), "avatar_url", Undef)}

EmbeddedProjects ==
    {ValidProject, With(ValidProject, "platform", Str(S_topgg)),
     With(ValidProject, "type", Str(S_discord)),
     With(ValidProject, "id", Str(DigitRun(22))),
     With(With(ValidProject, "type", Null), "platform", Str(UpperCase(S_discord)))}

EmbeddingPayloads ==
    {Obj([type |-> Str(S_integration_create), data |-> ValidIntegrationCreateData]),
     Obj([type |-> Str(S_vote_create), data |-> ValidVoteCreateData]),
     Obj([type |-> Str(S_webhook_test), data |-> ValidWebhookTestData])}

EmbeddedEntityInputs ==
    {With(p, "data", With(With(p.o.data, "user", u), "project", q)) :
        p \in EmbeddingPayloads, u \in EmbeddedUsers, q \in EmbeddedProjects}

(***************************************************************************)
(* The validations a caller runs.  first is the outcome of validating the  *)
(* raw input, result the outcome of the latest validation; input is the    *)
(* value as the caller passed it, after the same value once the call has   *)
(* returned.                                                               *)
(***************************************************************************)
NoResult == [success |-> FALSE, data |-> Undef, issues |-> <<>>]

\* The request handlers of a server that validates request bodies.
Handlers == 1..MaxHandlers
NoRequest == [schema |-> "none", body |-> Undef]

Init ==
    /\ phase = "idle"
    /\ schema = "none"
    /\ input = Undef
    /\ result = NoResult
    /\ first = NoResult
    /\ lastIndex = FreshStore
    /\ after = Undef
    /\ pc = [h \in Handlers |-> "waiting"]
    /\ req = [h \in Handlers |-> NoRequest]
    /\ out = [h \in Handlers |-> NoResult]

\* SchemaOf(name).safeParse(x): a synchronous call on a raw value.
Validate(name, x) ==
    /\ phase = "idle"
    /\ phase' = "parsed"
    /\ schema' = name
    /\ input' = x
    /\ LET r == SafeParse(SchemaOf(name), x, lastIndex)
       IN result' = r.outcome /\ lastIndex' = r.st /\ after' = r.raw
    /\ first' = result'
    /\ UNCHANGED <<pc, req, out>>

\* The caller validates the value a successful validation returned.
Revalidate ==
    /\ phase = "parsed"
    /\ result.success
    /\ phase' = "reparsed"
    /\ LET r == SafeParse(SchemaOf(schema), first.data, lastIndex)
       IN /\ result' = r.outcome
          /\ lastIndex' = r.st
          /\ first' = [first EXCEPT !.data = r.raw]
    /\ UNCHANGED <<schema, input, after, pc, req, out>>

\* The caller is done with the outcome; the schema objects keep nothing.
Discard ==
    /\ phase \in {"parsed", "reparsed"}
    /\ phase' = "idle"
    /\ schema' = "none"
    /\ input' = Undef
    /\ result' = NoResult
    /\ first' = NoResult
    /\ after' = Undef
    /\ UNCHANGED <<lastIndex, pc, req, out>>

ValidateSnowflake == \E x \in SnowflakeInputs : Validate("SnowflakeSchema", x)

ValidateWebhookPayload == \E x \in WebhookPayloadInputs : Validate("WebhookPayloadSchema", x)

ValidateProjectVotesQuery ==
    \E x \in ProjectVotesQueryInputs : Validate("GetProjectVotesQuerySchema", x)

ValidateUserVoteCheckResponse ==
    \E x \in UserVoteCheckResponseInputs : Validate("GetUserVoteCheckResponseSchema", x)

ValidateIntegrationCreateResponse ==
    \E x \in IntegrationCreateResponseInputs : Validate("IntegrationCreateResponseSchema", x)

ValidateIntegrationCreateData ==
    \E x \in IntegrationCreateDataInputs : Validate("IntegrationCreateDataSchema", x)

ValidatePostBotStatsBody ==
    \E x \in PostBotStatsBodyInputs : Validate("PostBotStatsBodySchema", x)

ValidateProjectVotesResponse ==
    \E x \in ProjectVotesResponseInputs : Validate("GetProjectVotesResponseSchema", x)

ValidateUser ==
    \E x \in UserInputs : Validate("UserSchema", x)

ValidateVoteCreateWebhookPayload ==
    \E x \in VoteCreatePayloadInputs : Validate("VoteCreateWebhookPayloadSchema", x)

ValidateBotWebhookPayload ==
    \E x \in V0WebhookInputs("bot") : Validate("BotWebhookPayloadSchema", x)

ValidateServerWebhookPayload ==
    \E x \in V0WebhookInputs("guild") : Validate("ServerWebhookPayloadSchema", x)

ValidateSearchBotsQuery ==
    \E x \in SearchBotsQueryInputs : Validate("GetSearchBotsQuerySchema", x)

ValidateISO8601Date ==
    \E x \in DateInputs : Validate("ISO8601DateSchema", x)

ValidateVoteStatusResponse ==
    \E x \in VoteStatusResponseInputs : Validate("GetVoteStatusByUserResponseSchema", x)

ValidateVote ==
    \E x \in VoteInputs : Validate("VoteSchema", x)

ValidateProjectType ==
    \E x \in EnumInputs : Validate("ProjectTypeSchema", x)

ValidateProjectPlatformType ==
    \E x \in EnumInputs : Validate("ProjectPlatformTypeSchema", x)

ValidateUserSource ==
    \E x \in EnumInputs : Validate("UserSourceSchema", x)

ValidateWebhookEventType ==
    \E x \in EnumInputs : Validate("WebhookEventTypeSchema", x)

ValidateV0WebhookEventType ==
    \E x \in EnumInputs : Validate("V0_WebhookEventTypeSchema", x)

ValidateProjectResponse ==
    \E x \in ProjectResponseInputs : Validate("GetProjectResponseSchema", x)

ValidateBot ==
    \E x \in BotInputs : Validate("BotSchema", x)

ValidateIntegrationPayload ==
    \E x \in IntegrationPayloadInputs : Validate("WebhookPayloadSchema", x)

ValidateWebhookEventTypes ==
    \E x \in EventTypeInputs : Validate("WebhookEventTypesSchema", x)

ValidateEmbeddedEntities ==
    \E x \in EmbeddedEntityInputs : Validate("WebhookPayloadSchema", x)

Next ==
    \/ ValidateSnowflake
    \/ ValidateWebhookPayload
    \/ ValidateProjectVotesQuery
    \/ ValidateUserVoteCheckResponse
    \/ ValidateIntegrationCreateResponse
    \/ ValidateIntegrationCreateData
    \/ ValidatePostBotStatsBody
    \/ ValidateProjectVotesResponse
    \/ ValidateUser
    \/ ValidateVoteCreateWebhookPayload
    \/ ValidateBotWebhookPayload
    \/ ValidateServerWebhookPayload
    \/ ValidateSearchBotsQuery
    \/ ValidateISO8601Date
    \/ ValidateVoteStatusResponse
    \/ ValidateVote
    \/ ValidateProjectType
    \/ ValidateProjectPlatformType
    \/ ValidateUserSource
    \/ ValidateWebhookEventType
    \/ ValidateV0WebhookEventType
    \/ ValidateProjectResponse
    \/ ValidateBot
    \/ ValidateIntegrationPayload
    \/ ValidateWebhookEventTypes
    \/ ValidateEmbeddedEntities
    \/ Revalidate
    \/ Discard

Spec == Init /\ [][Next]_vars

(***************************************************************************)
(* Handlers that validate side by side.  safeParse is a synchronous call,  *)
(* so the validations of different handlers interleave call by call; the   *)
(* schema objects and their RegExp objects are shared by all of them.      *)
(***************************************************************************)
\* A request arrives at handler h.
Receive(h) ==
    /\ pc[h] = "waiting"
    /\ \E r \in ConcRequests : req' = [req EXCEPT ![h] = r]
    /\ pc' = [pc EXCEPT ![h] = "received"]
    /\ UNCHANGED <<phase, schema, input, result, first, lastIndex, after, out>>

\* Handler h runs Schema.safeParse(req.body).
Parse(h) ==
    /\ pc[h] = "received"
    /\ LET r == SafeParse(SchemaOf(req[h].schema), req[h].body, lastIndex)
       IN /\ out' = [out EXCEPT ![h] = r.outcome]
          /\ lastIndex' = r.st
          /\ req' = [req EXCEPT ![h].body = r.raw]
    /\ pc' = [pc EXCEPT ![h] = "validated"]
    /\ UNCHANGED <<phase, schema, input, result, first, after>>

\* Handler h answers and waits for its next request.
Respond(h) ==
    /\ pc[h] = "validated"
    /\ pc' = [pc EXCEPT ![h] = "waiting"]
    /\ req' = [req EXCEPT ![h] = NoRequest]
    /\ out' = [out EXCEPT ![h] = NoResult]
    /\ UNCHANGED <<phase, schema, input, result, first, lastIndex, after>>

ConcNext == \E h \in Handlers : Receive(h) \/ Parse(h) \/ Respond(h)

ConcSpec == Init /\ [][ConcNext]_vars

(***************************************************************************)
(* Properties.                                                             *)
(***************************************************************************)
Parsed(name) == phase = "parsed" /\ schema = name

KnownPayloadTypes ==
    {Str(S_integration_create), Str(S_integration_delete),
     Str(S_vote_create), Str(S_webhook_test)}

\* C1: a payload whose `type` is absent, not a string, or a string other than
\* the four v1 literals is rejected by WebhookPayloadSchema, whatever its data.
C1_UnknownTypeRejected ==
    (Parsed("WebhookPayloadSchema") /\ input.t = "object"
        /\ Get(input, "type") \notin KnownPayloadTypes)
      => ~result.success

C1_Witness ==
    /\ Parsed("WebhookPayloadSchema")
    /\ input = Obj([type |-> Str(S_test), data |-> ValidWebhookTestData])
    /\ ~result.success

VoteRequired == {"user_id", "platform_id", "weight", "created_at", "expires_at"}

HasIssueAt(path) == \E i \in 1..Len(result.issues) : result.issues[i].path = path

\* C2: a `vote.create` payload is accepted iff its data satisfies
\* VoteCreateDataSchema, and a missing required vote field is reported with
\* the path of that field.
C2_VoteCreateVariantOnly ==
    (Parsed("WebhookPayloadSchema") /\ input.t = "object"
        /\ Get(input, "type") = Str(S_vote_create))
      => /\ result.success <=> (Run(VoteCreateDataSchema, Get(input, "data"), FreshStore).issues = <<>>)
         /\ \A f \in VoteRequired :
               (Get(input, "data").t = "object" /\ f \notin DOMAIN Get(input, "data").o)
                  => ~result.success /\ HasIssueAt(<<"data", f>>)

C2_Witness ==
    /\ Parsed("WebhookPayloadSchema")
    /\ input = Obj([type |-> Str(S_vote_create), data |-> ValidWebhookTestData])
    /\ ~result.success
    /\ HasIssueAt(<<"data", "created_at">>)

IsSnowflake(v) ==
    /\ v.t = "string"
    /\ Len(v.s) >= 17 /\ Len(v.s) <= 21
    /\ \A i \in 1..Len(v.s) : v.s[i] \in Digit

\* C3: SnowflakeSchema accepts exactly the strings of 17 to 21 ASCII digits.
C3_SnowflakeFormat ==
    Parsed("SnowflakeSchema") => (result.success <=> IsSnowflake(input))

C3_Witness ==
    /\ Parsed("SnowflakeSchema")
    /\ input = Str(DigitRun(17) \o <<"\n">>)
    /\ ~result.success

IsStr(v) == v.t = "string"

Present(obj, k) == k \in DOMAIN obj.o

\* C4: GetProjectVotesQuerySchema rejects a query with neither cursor nor
\* startDate, and accepts a query whose cursor is any string (the empty one
\* included), or whose startDate is a valid date, or both.
C4_CursorOrStartDatePresent ==
    (Parsed("GetProjectVotesQuerySchema") /\ input.t = "object")
      => /\ (~Present(input, "cursor") /\ ~Present(input, "startDate")) => ~result.success
         /\ ( /\ Present(input, "cursor") \/ Present(input, "startDate")
              /\ Present(input, "cursor") => IsStr(input.o.cursor)
              /\ Present(input, "startDate") => input.o.startDate \in {Str(S_date), Str(S_date_leap)} )
            => result.success

\* C5: `voted` is accepted iff it is the number 0 or the number 1, and the
\* accepted value is returned as it was given.
C5_VotedZeroOrOne ==
    (Parsed("GetUserVoteCheckResponseSchema") /\ input.t = "object")
      => /\ result.success <=> Get(input, "voted") \in {Int_(0), Int_(1)}
         /\ result.success => result.data.o.voted = input.o.voted

C5_Witness ==
    /\ Parsed("GetUserVoteCheckResponseSchema")
    /\ input = Obj([voted |-> Bool(TRUE)])
    /\ ~result.success

HasDuplicate(a) == \E i, j \in 1..Len(a) : i # j /\ a[i] = a[j]

\* The enum the validator declares for the elements of `routes`.
RoutesEnum ==
    {Str(IntegrationWebhookEventTypeSchema.entries[i]) :
        i \in 1..Len(IntegrationWebhookEventTypeSchema.entries)}

RoutesCase ==
    /\ Parsed("IntegrationCreateResponseSchema")
    /\ input.t = "object"
    /\ Get(input, "webhook_url") = Str(S_url)
    /\ Get(input, "routes").t = "array"

\* C6: with a valid webhook_url, a `routes` array with a repeated element is
\* rejected, and one of pairwise distinct members of the declared enum (the
\* empty array included) is accepted.
C6_RoutesUnique ==
    RoutesCase
      => /\ HasDuplicate(input.o.routes.a) => ~result.success
         /\ ( /\ ~HasDuplicate(input.o.routes.a)
              /\ \A i \in 1..Len(input.o.routes.a) : input.o.routes.a[i] \in RoutesEnum )
            => result.success

C6_Witness ==
    /\ RoutesCase
    /\ input.o.routes = Arr(<<Str(S_integration_create), Str(S_integration_create)>>)
    /\ ~result.success

\* The subscribable webhook scopes (WebhookEventType of the type declaration).
WebhookScopes == {Str(S_webhook_test), Str(S_vote_create)}

\* C7: a `routes` array of distinct subscribable webhook scopes (webhook.test,
\* vote.create) is accepted by IntegrationCreateResponseSchema.
C7_RoutesAreWebhookScopes ==
    ( /\ RoutesCase
      /\ ~HasDuplicate(input.o.routes.a)
      /\ \A i \in 1..Len(input.o.routes.a) : input.o.routes.a[i] \in WebhookScopes )
      => result.success

IsWebhookSecret(v) ==
    /\ v.t = "string"
    /\ Len(v.s) >= 5
    /\ SubSeq(v.s, 1, 4) = <<"w", "h", "s", "_">>
    /\ \A i \in 5..Len(v.s) : v.s[i] \in AlNum

\* C8: with the other fields valid, webhook_secret is accepted iff it is
\* `whs_` followed by one or more characters of [a-zA-Z0-9] and nothing else.
C8_WebhookSecretFormat ==
    (Parsed("IntegrationCreateDataSchema") /\ input.t = "object")
      => (result.success <=> IsWebhookSecret(Get(input, "webhook_secret")))

C8_Witness ==
    /\ Parsed("IntegrationCreateDataSchema")
    /\ Get(input, "webhook_secret") = Str(S_whs)
    /\ ~result.success

IsNumberOrNumbers(v) ==
    \/ v.t = "number"
    \/ v.t = "array" /\ \A i \in 1..Len(v.a) : v.a[i].t = "number"

C10_Idempotent ==
    phase = "reparsed" => (result.success /\ result.data = first.data)

C10_Witness ==
    /\ phase = "reparsed"
    /\ schema = "WebhookPayloadSchema"
    /\ first.data # input
    /\ result.data = first.data

\* C11: a validation either returns the whole normalized value without any
\* issue, or fails with issues and no value; a response in which one vote of
\* `data` is invalid yields no value, and an accepted one keeps every vote.
C11_AllOrNothing ==
    /\ phase \in {"parsed", "reparsed"} =>
          \/ result.success /\ result.issues = <<>> /\ result.data # Undef
          \/ ~result.success /\ result.issues # <<>> /\ result.data = Undef
    /\ ( /\ Parsed("GetProjectVotesResponseSchema")
         /\ input.t = "object"
         /\ Get(input, "data").t = "array" )
       => /\ (\E i \in 1..Len(input.o.data.a) : input.o.data.a[i] \in InvalidVotes)
                => ~result.success /\ result.data = Undef
          /\ result.success => Len(result.data.o.data.a) = Len(input.o.data.a)

C11_Witness ==
    /\ Parsed("GetProjectVotesResponseSchema")
    /\ input = Obj([cursor |-> Str(S_cursor),
                    data |-> Arr(<<ValidVote, With(ValidVote, "weight", Str(<<"1">>))>>)])
    /\ ~result.success
    /\ result.data = Undef

UserKeys == {"id", "platform_id", "name", "avatar_url"}

HasIssueCode(code) == \E i \in 1..Len(result.issues) : result.issues[i].code = code

\* The cross-field rule of the project-votes query, on the raw input.
NeitherCursorNorStartDate ==
    ~Truthy(Get(input, "cursor")) /\ ~Truthy(Get(input, "startDate"))

CursorInvalid == Present(input, "cursor") /\ ~IsStr(input.o.cursor)

StartDateInvalid ==
    Present(input, "startDate") /\ input.o.startDate \notin {Str(S_date), Str(S_date_leap)}

\* C12 (as claimed): every violated rule, field-level and cross-field alike,
\* has its own entry in the reported error.
C12_EveryViolationReported ==
    (Parsed("GetProjectVotesQuerySchema") /\ input.t = "object")
      => /\ CursorInvalid => HasIssueAt(<<"cursor">>)
         /\ StartDateInvalid => HasIssueAt(<<"startDate">>)
         /\ NeitherCursorNorStartDate => HasIssueCode("custom")

\* C12 (amended): every field that violates its rule has an entry with its
\* path, one per field; the cross-field rule of the project-votes query is
\* reported exactly when it is violated and no field has the wrong type.
C12_FieldViolationsReported ==
    /\ Parsed("UserSchema") =>
          /\ \A k \in UserKeys : Get(input, k) # ValidUser.o[k] <=> HasIssueAt(<<k>>)
          /\ Len(result.issues) = Cardinality({k \in UserKeys : Get(input, k) # ValidUser.o[k]})
    /\ (Parsed("GetProjectVotesQuerySchema") /\ input.t = "object") =>
          /\ CursorInvalid <=> HasIssueAt(<<"cursor">>)
          /\ StartDateInvalid <=> HasIssueAt(<<"startDate">>)
          /\ HasIssueCode("custom") <=>
                /\ NeitherCursorNorStartDate
                /\ ~CursorInvalid
                /\ Present(input, "startDate") => IsStr(input.o.startDate)

C12_Witness ==
    /\ Parsed("UserSchema")
    /\ input = Obj([id |-> Str(DigitRun(5)), platform_id |-> ValidUser.o.platform_id,
                    name |-> ValidUser.o.name, avatar_url |-> Str(S_not_url)])
    /\ HasIssueAt(<<"id">>) /\ HasIssueAt(<<"avatar_url">>)
    /\ Len(result.issues) = 2

\* C13: the value VoteCreateWebhookPayloadSchema returns carries in `data`
\* every field of the VoteCreateData type, so `data.id` is validated as an
\* identifier and is present in the output.
C13_VoteCreateDataMirrorsType ==
    (Parsed("VoteCreateWebhookPayloadSchema") /\ result.success)
      => /\ IsSnowflake(Get(Get(input, "data"), "id"))
         /\ Get(Get(result.data, "data"), "id") = Get(Get(input, "data"), "id")

V0Schemas == {"BotWebhookPayloadSchema", "ServerWebhookPayloadSchema"}

\* C14: both v0 webhook validators validate and return the target id, the
\* voter id, `type` in {upvote, test}, the boolean `isWeekend` and the
\* optional `query`; any other `type` is rejected.
C14_V0WebhookFields ==
    (phase = "parsed" /\ schema \in V0Schemas)
      => /\ Get(input, "type") \notin {Str(S_upvote), Str(S_test)} => ~result.success
         /\ result.success =>
               /\ Get(input, "isWeekend").t = "boolean"
               /\ \A k \in {"user", "type", "isWeekend", "query"} :
                     Get(result.data, k) = Get(input, k)

LimitInRange(v) == v = Undef \/ (v.t = "number" /\ v.n >= v.d /\ v.n <= 500 * v.d)

OffsetInRange(v) == v = Undef \/ (v.t = "number" /\ v.n >= 0)

\* C15: `limit` is accepted iff absent or a number in 1..500, `offset` iff
\* absent or a number >= 0, and `sort` must be a string.
C15_SearchBotsQueryBounds ==
    (Parsed("GetSearchBotsQuerySchema") /\ input.t = "object")
      => ( result.success <=>
              /\ LimitInRange(Get(input, "limit"))
              /\ OffsetInRange(Get(input, "offset"))
              /\ IsStr(Get(input, "sort")) )

C15_Witness ==
    /\ Parsed("GetSearchBotsQuerySchema")
    /\ input = Obj([limit |-> Int_(501), sort |-> Str(S_sort)])
    /\ ~result.success

\* The calendar, written out: the days of each month, and the leap years
\* among DateYears.
CalendarDays(y, m) ==
    CASE m \in {1, 3, 5, 7, 8, 10, 12} -> 31
      [] m \in {4, 6, 9, 11} -> 30
      [] m = 2 -> IF y \in {2000, 2024} THEN 29 ELSE 28
      [] OTHER -> 0

CalendarDates ==
    {Str(DateString(t[1], t[2], t[3])) :
        t \in {u \in DateYears \X (1..12) \X DateDays :
                  u[3] >= 1 /\ u[3] <= CalendarDays(u[1], u[2])}}

DateOnly == {Str(S_date), Str(S_date_leap)}

EnumMembers(name) ==
    CASE name = "ProjectTypeSchema" -> {S_bot, S_server, S_game}
      [] name = "ProjectPlatformTypeSchema" -> {S_discord, S_roblox}
      [] name = "UserSourceSchema" -> {S_discord, S_topgg}
      [] name = "WebhookEventTypeSchema" -> {S_webhook_test, S_vote_create}
      [] name = "V0_WebhookEventTypeSchema" -> {S_upvote, S_test}

EnumSchemas ==
    {"ProjectTypeSchema", "ProjectPlatformTypeSchema", "UserSourceSchema",
     "WebhookEventTypeSchema", "V0_WebhookEventTypeSchema"}

\* C17: each enumerated field accepts exactly the listed strings, compared
\* case-sensitively; every other string and every non-string is rejected.
C17_EnumsClosed ==
    \A name \in EnumSchemas :
        Parsed(name) =>
            /\ result.success <=> (input.t = "string" /\ input.s \in EnumMembers(name))
            /\ result.success => result.data = input

C17_Witness ==
    /\ Parsed("ProjectTypeSchema")
    /\ input = Str(Capitalized(S_bot))
    /\ ~result.success

IsNum(v) == v.t = "number"

\* C18: the count, score and weight fields accept any number, zero, negative
\* and fractional values included.
C18_NumbersUnconstrained ==
    /\ (Parsed("VoteSchema") /\ IsNum(Get(input, "weight"))
          /\ With(input, "weight", Int_(1)) = ValidVote)
         => result.success
    /\ (Parsed("GetVoteStatusByUserResponseSchema") /\ IsNum(Get(input, "weight"))
          /\ Get(input, "created_at") \in DateOnly /\ Get(input, "expires_at") \in DateOnly)
         => result.success
    /\ \A k \in ProjectNumberFields :
         (Parsed("GetProjectResponseSchema") /\ IsNum(Get(input, k))
            /\ With(input, k, Int_(1)) = ValidProjectResponse)
           => result.success
    /\ \A k \in BotNumberFields :
         (Parsed("BotSchema") /\ IsNum(Get(input, k)) /\ With(input, k, Int_(1)) = ValidBot)
           => result.success

C18_Witness ==
    /\ Parsed("VoteSchema")
    /\ input = With(ValidVote, "weight", Num(-1, 2))
    /\ result.success

\* The outcome of a validation that runs alone on the schema objects as the
\* module constructed them.
Alone(r) == SafeParse(SchemaOf(r.schema), r.body, FreshStore).outcome

Duplicates(a) == {a[i] : i \in {i \in 1..Len(a) : \E j \in 1..Len(a) : j # i /\ a[j] = a[i]}}

\* The values an issue lists.
Listed(issue) == {issue.values[i] : i \in 1..Len(issue.values)}

\* A `routes` array of integration event types with a repeated entry.
DuplicateRoutes ==
    /\ RoutesCase
    /\ \A i \in 1..Len(input.o.routes.a) : input.o.routes.a[i] \in RoutesEnum
    /\ HasDuplicate(input.o.routes.a)

\* C22 as stated: the rejection of duplicate routes is reported at `routes`
\* by an error that lists the duplicated entries.
C22_DuplicatesListed ==
    DuplicateRoutes =>
        \E i \in 1..Len(result.issues) :
            /\ result.issues[i].path = <<"routes">>
            /\ Duplicates(input.o.routes.a) \subseteq Listed(result.issues[i])

\* C22, amended: duplicate routes are reported by one custom issue at
\* `routes` with the fixed message of the source, which lists no entry.
C22_DuplicatesReported ==
    DuplicateRoutes =>
        /\ ~result.success
        /\ Len(result.issues) = 1
        /\ result.issues[1].path = <<"routes">>
        /\ result.issues[1].code = "custom"
        /\ result.issues[1].message = "Duplicate webhook scopes are not allowed"
        /\ Listed(result.issues[1]) = {}

C22_Witness ==
    /\ DuplicateRoutes
    /\ input.o.routes = Arr(<<Str(S_integration_delete), Str(S_integration_create),
                              Str(S_integration_delete)>>)
    /\ HasIssueAt(<<"routes">>)

\* A payload object whose `type` is none of the four v1 literals.
NoVariant ==
    /\ Parsed("WebhookPayloadSchema")
    /\ input.t = "object"
    /\ Get(input, "type") \notin KnownPayloadTypes

\* C23 as stated: the rejection of an unknown `type` is reported by an error
\* that lists the four accepted type literals.
C23_AcceptedTypesListed ==
    NoVariant =>
        \E i \in 1..Len(result.issues) : KnownPayloadTypes \subseteq Listed(result.issues[i])

\* C23, amended: an unknown `type` is reported by one invalid_union issue at
\* the path `type`, which lists no value.
C23_UnknownTypeReported ==
    NoVariant =>
        /\ ~result.success
        /\ Len(result.issues) = 1
        /\ result.issues[1].path = <<"type">>
        /\ result.issues[1].code = "invalid_union"
        /\ Listed(result.issues[1]) = {}

C23_Witness ==
    /\ NoVariant
    /\ Get(input, "type") = Str(S_unknown_event)
    /\ Get(input, "data") = ValidVoteCreateData
    /\ result.issues[1].code = "invalid_union"

\* C24: a search query without `limit` and `offset` is accepted, and the
\* value returned has limit = 50 and offset = 0.
C24_SearchDefaults ==
    ( /\ Parsed("GetSearchBotsQuerySchema")
      /\ input.t = "object"
      /\ ~Present(input, "limit")
      /\ ~Present(input, "offset")
      /\ IsStr(Get(input, "sort")) )
      => /\ result.success
         /\ Get(result.data, "limit") = Int_(50)
         /\ Get(result.data, "offset") = Int_(0)

\* C25: a project-votes query with both a cursor and a valid startDate is
\* accepted, and the value returned has both with their input values.
C25_BothKept ==
    ( /\ Parsed("GetProjectVotesQuerySchema")
      /\ input.t = "object"
      /\ IsStr(Get(input, "cursor"))
      /\ Get(input, "startDate") \in DateOnly )
      => /\ result.success
         /\ Get(result.data, "cursor") = Get(input, "cursor")
         /\ Get(result.data, "startDate") = Get(input, "startDate")

C25_Witness ==
    /\ Parsed("GetProjectVotesQuerySchema")
    /\ input = Obj([cursor |-> Str(S_cursor), startDate |-> Str(S_date_leap)])
    /\ result.success
    /\ result.data = input

\* Among the dates of DateOnly: e is not later than c.
NotLater(e, c) == e = c \/ (e = Str(S_date_leap) /\ c = Str(S_date))

DatesReversed(v) ==
    /\ v.t = "object"
    /\ Get(v, "created_at") \in DateOnly
    /\ Get(v, "expires_at") \in DateOnly
    /\ NotLater(Get(v, "expires_at"), Get(v, "created_at"))

\* The record v with the dates of w.
WithDatesOf(v, w) ==
    With(With(v, "created_at", Get(w, "created_at")), "expires_at", Get(w, "expires_at"))

\* C26: a vote record whose expires_at is not later than its created_at is
\* accepted by VoteSchema, VoteCreateDataSchema and
\* GetVoteStatusByUserResponseSchema when the record is otherwise valid.
C26_TimestampsUnrelated ==
    /\ (Parsed("VoteSchema") /\ DatesReversed(input)
          /\ input = WithDatesOf(ValidVote, input))
         => result.success
    /\ (Parsed("GetVoteStatusByUserResponseSchema") /\ DatesReversed(input)
          /\ IsNum(Get(input, "weight")))
         => result.success
    /\ (Parsed("VoteCreateWebhookPayloadSchema") /\ input.t = "object"
          /\ Get(input, "type") = Str(S_vote_create)
          /\ DatesReversed(Get(input, "data"))
          /\ Get(input, "data") = WithDatesOf(ValidVoteCreateData, Get(input, "data")))
         => result.success

C26_Witness ==
    /\ Parsed("GetVoteStatusByUserResponseSchema")
    /\ input = Obj([created_at |-> Str(S_date), expires_at |-> Str(S_date_leap),
                    weight |-> Int_(1)])
    /\ result.success

\* The integration payloads that are valid but for their connection_id.
IntegrationPayloadCase ==
    /\ Parsed("WebhookPayloadSchema")
    /\ input.t = "object"
    /\ Get(input, "data").t = "object"
    /\ \/ /\ Get(input, "type") = Str(S_integration_create)
          /\ With(Get(input, "data"), "connection_id", Str(DigitRun(20)))
                = ValidIntegrationCreateData
       \/ /\ Get(input, "type") = Str(S_integration_delete)
          /\ With(Get(input, "data"), "connection_id", Str(DigitRun(20)))
                = ValidIntegrationDeleteData

SeventeenToTwentyOneDigits(v) ==
    /\ v.t = "string"
    /\ Len(v.s) >= 17 /\ Len(v.s) <= 21
    /\ \A i \in 1..Len(v.s) : v.s[i] \in {"0", "1", "2", "3", "4", "5", "6", "7", "8", "9"}

\* C27: an integration.create or integration.delete payload is accepted iff
\* its connection_id is a string of 17 to 21 digits; any other string is
\* rejected, with the error at data.connection_id.
C27_ConnectionIdIsSnowflake ==
    IntegrationPayloadCase =>
        /\ result.success <=> SeventeenToTwentyOneDigits(Get(Get(input, "data"), "connection_id"))
        /\ ~result.success => HasIssueAt(<<"data", "connection_id">>)

C27_Witness ==
    /\ IntegrationPayloadCase
    /\ Get(input, "type") = Str(S_integration_delete)
    /\ Get(Get(input, "data"), "connection_id") = Str(S_uuid)
    /\ ~result.success

DeclaredKeys(sch) == {sch.shape[i][1] : i \in 1..Len(sch.shape)}

FieldOf(sch, k) == sch.shape[CHOOSE i \in 1..Len(sch.shape) : sch.shape[i][1] = k][2]

\* The options of a discriminated union that declare the tag of v.
OptionsFor(sch, v) ==
    {i \in 1..Len(sch.options) :
        v.t = "object" /\ DiscriminatorOf(sch.options[i], sch.disc) = Get(v, sch.disc)}

\* At every object level of v, the keys of v are keys sch declares there.
RECURSIVE KeysDeclared(_, _)
KeysDeclared(sch, v) ==
    CASE sch.type = "object" /\ v.t = "object" ->
            /\ DOMAIN v.o \subseteq DeclaredKeys(sch)
            /\ \A k \in DOMAIN v.o : KeysDeclared(FieldOf(sch, k), v.o[k])
      [] sch.type = "array" /\ v.t = "array" ->
            \A i \in 1..Len(v.a) : KeysDeclared(sch.element, v.a[i])
      [] sch.type = "optional" -> KeysDeclared(sch.inner, v)
      [] sch.type = "discriminatedUnion" ->
            \E i \in OptionsFor(sch, v) : KeysDeclared(sch.options[i], v)
      [] OTHER -> v.t \notin {"object", "array"} \/ sch.type \in {"union", "xor"}

\* v without the keys sch does not declare, at every object level.
RECURSIVE Stripped(_, _)
Stripped(sch, v) ==
    CASE sch.type = "object" /\ v.t = "object" ->
            Obj([k \in DOMAIN v.o \cap DeclaredKeys(sch) |-> Stripped(FieldOf(sch, k), v.o[k])])
      [] sch.type = "array" /\ v.t = "array" ->
            Arr([i \in 1..Len(v.a) |-> Stripped(sch.element, v.a[i])])
      [] sch.type = "optional" -> Stripped(sch.inner, v)
      [] sch.type = "discriminatedUnion" /\ OptionsFor(sch, v) # {} ->
            Stripped(sch.options[CHOOSE i \in OptionsFor(sch, v) : TRUE], v)
      [] OTHER -> v

\* C28: the value a schema returns has, at every object level, only keys
\* the schema declares there; and an input is accepted whenever the same
\* input without its undeclared keys is.
C28_UndeclaredKeysDropped ==
    phase = "parsed" =>
        /\ result.success => KeysDeclared(SchemaOf(schema), result.data)
        /\ SafeParse(SchemaOf(schema), Stripped(SchemaOf(schema), input), FreshStore)
              .outcome.success => result.success

C28_Witness ==
    /\ Parsed("IntegrationCreateDataSchema")
    /\ Stripped(SchemaOf(schema), input) # input
    /\ "email" \in DOMAIN Get(input, "user").o
    /\ result.success
    /\ "email" \notin DOMAIN Get(result.data, "user").o

\* The `type` literal of each variant of WebhookPayloadSchema, in order.
DispatchedTags ==
    [i \in 1..Len(WebhookPayloadSchema.options) |->
        DiscriminatorOf(WebhookPayloadSchema.options[i], WebhookPayloadSchema.disc)]

\* C29: the `type` tags of the variants of WebhookPayloadSchema are pairwise
\* distinct, and a value is accepted by WebhookEventTypesSchema exactly when
\* it is one of them; a payload carrying one of them has exactly one variant.
C29_TagsAreEventTypes ==
    /\ \A i, j \in DOMAIN DispatchedTags : DispatchedTags[i] = DispatchedTags[j] => i = j
    /\ Parsed("WebhookEventTypesSchema") =>
          (result.success <=> \E i \in DOMAIN DispatchedTags : DispatchedTags[i] = input)
    /\ (Parsed("WebhookPayloadSchema") /\ input.t = "object") =>
          IF SafeParse(WebhookEventTypesSchema, Get(input, "type"), FreshStore).outcome.success
          THEN Cardinality(OptionsFor(WebhookPayloadSchema, input)) = 1
          ELSE OptionsFor(WebhookPayloadSchema, input) = {}

C29_Witness ==
    /\ Parsed("WebhookEventTypesSchema")
    /\ input = Str(S_integration_delete)
    /\ result.success
    /\ result.data = DispatchedTags[2]

EmbeddingTypes == {Str(S_integration_create), Str(S_vote_create), Str(S_webhook_test)}

IsUrlValue(v) == v.t = "string" /\ IsURL(Trim(v.s))

\* The fields of an embedded user that are not what UserSchema asks for.
UserFaults(u) ==
    {k \in {"id", "platform_id"} : ~IsSnowflake(Get(u, k))}
      \cup {k \in {"avatar_url"} : ~IsUrlValue(Get(u, k))}

\* The fields of an embedded project that are not what BaseProjectSchema
\* asks for.
ProjectFaults(p) ==
    {k \in {"id"} : ~IsSnowflake(Get(p, k))}
      \cup {k \in {"platform"} : Get(p, k) \notin {Str(S_discord), Str(S_roblox)}}
      \cup {k \in {"type"} : Get(p, k) \notin {Str(S_bot), Str(S_server), Str(S_game)}}

HasIssueUnder(path) ==
    \E i \in 1..Len(result.issues) :
        /\ Len(result.issues[i].path) >= Len(path)
        /\ SubSeq(result.issues[i].path, 1, Len(path)) = path

\* C30: a payload of type integration.create, vote.create or webhook.test
\* whose embedded user or project has a faulty field is rejected with an
\* issue at data.user.<field> or data.project.<field>; a votes response with
\* an invalid element of `data` is rejected with an issue under that element.
C30_EmbeddedFailureRejects ==
    /\ ( /\ Parsed("WebhookPayloadSchema")
         /\ input.t = "object"
         /\ Get(input, "type") \in EmbeddingTypes
         /\ Get(input, "data").t = "object" )
       => LET user == Get(input.o.data, "user")
              project == Get(input.o.data, "project")
          IN /\ user.t # "object" => ~result.success /\ HasIssueAt(<<"data", "user">>)
             /\ user.t = "object" =>
                   \A k \in UserFaults(user) :
                       ~result.success /\ HasIssueAt(<<"data", "user", k>>)
             /\ project.t # "object" => ~result.success /\ HasIssueAt(<<"data", "project">>)
             /\ project.t = "object" =>
                   \A k \in ProjectFaults(project) :
                       ~result.success /\ HasIssueAt(<<"data", "project", k>>)
    /\ ( /\ Parsed("GetProjectVotesResponseSchema")
         /\ input.t = "object"
         /\ Get(input, "data").t = "array" )
       => \A i \in 1..Len(input.o.data.a) :
              input.o.data.a[i] \in InvalidVotes
                 => ~result.success /\ HasIssueUnder(<<"data", ToString(i - 1)>>)

C30_Witness ==
    /\ Parsed("WebhookPayloadSchema")
    /\ input \in EmbeddedEntityInputs
    /\ Get(input, "type") = Str(S_integration_create)
    /\ input.o.data.o.project = ValidProject
    /\ input.o.data.o.user = With(ValidUser, "avatar_url", Str(S_not_url))
    /\ ~result.success
    /\ Len(result.issues) = 1
    /\ result.issues[1].path = <<"data", "user", "avatar_url">>

====
